---- MODULE Spec2Model ----
(***************************************************************************)
(* State-machine model of the voice-to-xero workflow engine:               *)
(*   - workflow_base/base_session.py    BaseWorkflowSession                *)
(*   - workflow_base/base_router.py     BaseWorkflowRouter                 *)
(*   - contact_workflow/session_store.py and routes/*.py                   *)
(*   - invoice_workflow/session_store.py and routes/*.py                   *)
(*                                                                         *)
(* One behaviour follows one workflow kind (chosen in Init): the contact   *)
(* store, the invoice store and the base router keep separate session      *)
(* dictionaries and share no state but the clock.  Every request handler   *)
(* is one action: it looks the session up (creating or re-creating it),    *)
(* applies every mutation of the handler and records the response code.    *)
(*                                                                         *)
(* Python values: None is the string "None"; a key missing from a dict is  *)
(* "Absent"; a dict is a function over its keys; a list is a sequence.     *)
(* The address dict is a record over its four Xero keys, each "Absent"     *)
(* until set; the address is None exactly when all four are absent (the    *)
(* code never leaves an empty dict behind).                                *)
(***************************************************************************)
EXTENDS Integers, Sequences, FiniteSets, TLC

(* kind:     the workflow the run is about ("contact", "invoice", "base")  *)
(* sessions: the session dictionary of that workflow, by session id        *)
(* now:      the clock, in minutes                                         *)
(* nreq:     requests handled and clock steps taken so far                 *)
(* resp:     the code of the last response ("ok" or the error code)        *)
(* resp_field: the field the last response names in its error, or None     *)
(* cookie:   the signed-cookie session of the Interactive client, by key    *)
(* mobile_sessions: the server-side sessions of Machine clients, by id      *)
(* issued:   the bearer tokens handed out to Machine clients                *)
(* calls:    the calls the last operation made to external collaborators    *)
(* ret:      what the last operation returned (None, a value or an error)   *)
(* cache: the WorkflowCache instances of workflow_base/cache.py.            *)
(* inflight: the voice submissions suspended on the collaborators, each     *)
(*           holding the session object it looked up                        *)
VARIABLES kind, sessions, now, nreq, resp, resp_field,
          cookie, mobile_sessions, issued, calls, ret, inflight, cache

(* The state beside the workflow sessions: credentials, collaborator calls *)
service_vars == <<cookie, mobile_sessions, issued, calls, ret>>

vars == <<kind, sessions, now, nreq, resp, resp_field, service_vars, inflight, cache>>

(* workflow_base/cache.py: WorkflowCache.__init__ and the module's global  *)
(* instances.  An entry of the dict is <<value, timestamp>>; a key the     *)
(* dict does not hold maps to NoEntry.  A key is the name of the wrapped   *)
(* function with the digest of its arguments, which is taken to tell       *)
(* different arguments apart.                                              *)
CacheArgs == {"a", "b"}
CacheFuncs == {"lookup"}
CacheKeys == {<<f, a>> : f \in CacheFuncs, a \in CacheArgs}
NoEntry == <<>>

WorkflowCache(ttl, max_size) ==
    [cache |-> [k \in CacheKeys |-> NoEntry], ttl |-> ttl, max_size |-> max_size,
     hits |-> 0, misses |-> 0]

ModuleCaches ==
    [session_cache |-> WorkflowCache(1800, 500),
     template_cache |-> WorkflowCache(3600, 100),
     api_cache |-> WorkflowCache(300, 200)]

---------------------------------------------------------------------------
(* Bounds of the exploration: the requests and clock steps of one run     *)
(* (requests to the base router are not counted, its sessions take         *)
(* finitely many values), and the minutes the clock runs.                  *)

MaxRequests == 4
MaxTime == 31

(* Program constants *)

SESSION_TTL == 30
max_line_items == 10

(* Minutes that can pass between two requests: up to the time-to-live,    *)
(* and just beyond it                                                      *)
TickMinutes == {SESSION_TTL, SESSION_TTL + 1}

---------------------------------------------------------------------------
(* Python values *)

None == "None"
Absent == "Absent"
EmptyDict == <<>>

SessIds == {"s1"}
NoSession == [kind |-> "none"]

Truthy(v) == v \notin {None, Absent, ""}

dict_get(d, k) == IF k \in DOMAIN d THEN d[k] ELSE None

dict_update(d, e) == e @@ d

InSeq(x, seq) == \E i \in 1..Len(seq) : seq[i] = x

list_index(seq, x) == (CHOOSE i \in 1..Len(seq) : seq[i] = x /\ \A j \in 1..(i-1) : seq[j] # x) - 1

Count(x, seq) == Cardinality({i \in 1..Len(seq) : seq[i] = x})

AddrNone == [AddressLine1 |-> Absent, City |-> Absent, PostalCode |-> Absent, Country |-> Absent]

---------------------------------------------------------------------------
(* Session store: expiry and lookup, shared by both workflow kinds *)

Expired(s, t) == t - s.updated_at > SESSION_TTL

Live(store, sid) == store[sid] # NoSession

---------------------------------------------------------------------------
(* BaseWorkflowSession methods, over any session record *)

advance_step_raises(steps, s) == ~InSeq(s.current_step, steps)

base_advance_step(steps, s, t) ==
    IF list_index(steps, s.current_step) < Len(steps) - 1
    THEN [s EXCEPT !.current_step = steps[list_index(steps, s.current_step) + 2],
                   !.updated_at = t]
    ELSE s

(* Variant: the step is appended whether or not it is already there *)
mark_step_complete_appending(s, step, data, t) ==
    [s EXCEPT !.completed_steps = Append(s.completed_steps, step),
              !.workflow_data = dict_update(s.workflow_data, data),
              !.updated_at = t,
              !.step_errors = [k \in (DOMAIN s.step_errors) \ {step} |-> s.step_errors[k]]]

mark_step_complete(s, step, data, t) ==
    [s EXCEPT !.completed_steps = IF InSeq(step, s.completed_steps)
                                  THEN s.completed_steps
                                  ELSE Append(s.completed_steps, step),
              !.workflow_data = dict_update(s.workflow_data, data),
              !.updated_at = t,
              !.step_errors = [k \in (DOMAIN s.step_errors) \ {step} |-> s.step_errors[k]]]

base_go_to_step_ok(steps, s, step) ==
    /\ InSeq(step, steps)
    /\ list_index(steps, step) <= Len(s.completed_steps)

base_go_to_step(steps, s, step, t) ==
    IF base_go_to_step_ok(steps, s, step)
    THEN [s EXCEPT !.current_step = step, !.updated_at = t]
    ELSE s

---------------------------------------------------------------------------
(* Request inputs *)

BadSessionId == "not-a-uuid"
BogusStep == "bogus"

validate_session_id(session_id) == session_id \in SessIds

(* Outcomes of the voice pipeline (transcription, extraction, sanitizers) *)
VoiceOutcomes == {"ok", "transcribe_fail", "no_parse", "sanitize_fail", "upstream_fail"}

VoiceErrorCode(outcome) ==
    IF outcome = "upstream_fail" THEN "PROCESSING_ERROR" ELSE "VALIDATION_ERROR"

(* The exception the pipeline raises: StepValidationError carries the      *)
(* field it is about ("audio" from the transcription, the step's field     *)
(* from extraction and sanitizers); any other exception carries none.      *)
VoiceException(step, outcome) ==
    [field |-> IF outcome = "transcribe_fail" THEN "audio"
               ELSE IF outcome = "upstream_fail" THEN None ELSE step,
     message |-> outcome]

(* Outcomes of the submission to the accounting service *)
SubmitOutcomes == {"ok", "AUTH_REQUIRED", "CREATION_FAILED"}

FieldValues == {"edited by hand"}

---------------------------------------------------------------------------
(* Contact workflow: contact_workflow/session_store.py *)

ContactSteps == <<"welcome", "name", "email", "address", "review", "final_submit", "complete">>

ContactVoiceSteps == {"name", "email", "address", "confirmation"}

ContactStepInputs == {"name", "review", "complete", BogusStep}

(* What the transcription and extraction collaborators can return, per step *)
ContactUtterances(step) ==
    CASE step = "name" ->
           {[transcript |-> "acme limited",
             parsed |-> [name |-> "Acme Ltd", is_organization |-> TRUE]],
            [transcript |-> "bob smith",
             parsed |-> [name |-> "Bob Smith", is_organization |-> FALSE]]}
      [] step = "email" ->
           {[transcript |-> "info at acme dot com",
             parsed |-> [email_address |-> "info@acme.com"]]}
      [] step = "address" ->
           {[transcript |-> "one high street london",
             parsed |-> [address_line1 |-> "1 High Street", city |-> "London",
                         postal_code |-> "SW1A 1AA", country |-> "GB"]]}
      [] step = "confirmation" ->
           {[transcript |-> "yes", parsed |-> [confirmed |-> TRUE, corrections_needed |-> None]]}
      [] OTHER -> {}

ContactFieldNames == {"name", "city", "phone"}

IsEmail(v) == v \in {"info@acme.com"}

ContactWorkflowSession(t) ==
    [kind |-> "contact",
     current_step |-> "welcome",
     completed_steps |-> <<>>,
     workflow_data |-> EmptyDict,
     step_errors |-> EmptyDict,
     updated_at |-> t,
     contact_data |-> [name |-> None, email_address |-> None, address |-> AddrNone],
     transcripts |-> EmptyDict,
     parsed_results |-> EmptyDict,
     errors |-> EmptyDict]

contact_validate_step_data(step, data) ==
    CASE step = "name" -> Truthy(dict_get(data, "name"))
      [] step = "email" -> Truthy(dict_get(data, "email_address"))
      [] step = "address" ->
           /\ "address" \in DOMAIN data
           /\ Truthy(data["address"].AddressLine1)
           /\ Truthy(data["address"].City)
           /\ Truthy(data["address"].PostalCode)
      [] OTHER -> step \in {"welcome", "review", "final_submit", "complete"}

contact_can_advance(s) == contact_validate_step_data(s.current_step, s.contact_data)

parse_contact_data(step, parsed_result) ==
    CASE step = "name" /\ "name" \in DOMAIN parsed_result ->
           [name |-> parsed_result.name]
      [] step = "email" /\ "email_address" \in DOMAIN parsed_result ->
           [email_address |-> parsed_result.email_address]
      [] step = "address" /\ "address_line1" \in DOMAIN parsed_result ->
           [address |-> [AddressLine1 |-> parsed_result.address_line1,
                         City |-> parsed_result.city,
                         PostalCode |-> parsed_result.postal_code,
                         Country |-> parsed_result.country]]
      [] OTHER -> EmptyDict

(* Variant: the result is stored but the step is not marked complete *)
contact_store_step_result_unmarked(s, step, result, transcript, t) ==
    [s EXCEPT !.transcripts = dict_update(@, [k \in {step} |-> transcript]),
              !.parsed_results = dict_update(@, [k \in {step} |-> result]),
              !.contact_data = dict_update(@, parse_contact_data(step, result)),
              !.workflow_data = dict_update(@, parse_contact_data(step, result))]

contact_store_step_result(s, step, result, transcript, t) ==
    LET parsed_data == parse_contact_data(step, result)
        s1 == [s EXCEPT !.transcripts = dict_update(@, [k \in {step} |-> transcript]),
                        !.parsed_results = dict_update(@, [k \in {step} |-> result]),
                        !.contact_data = dict_update(@, parsed_data),
                        !.workflow_data = dict_update(@, parsed_data)]
    IN IF parsed_data # EmptyDict THEN mark_step_complete(s1, step, parsed_data, t) ELSE s1

AddressKey(field_name) ==
    CASE field_name = "address_line1" -> "AddressLine1"
      [] field_name = "city" -> "City"
      [] field_name = "postal_code" -> "PostalCode"
      [] field_name = "country" -> "Country"

(* The address dict stored by a voice step is one object referenced by both *)
(* contact_data and workflow_data, so an in-place edit shows in both.       *)
contact_update_field(s, field_name, field_value, t) ==
    IF field_name \in {"address_line1", "city", "postal_code", "country"}
    THEN LET addr == [s.contact_data["address"] EXCEPT ![AddressKey(field_name)] = field_value]
         IN [s EXCEPT !.contact_data = dict_update(@, [address |-> addr]),
                      !.workflow_data = IF "address" \in DOMAIN @
                                        THEN dict_update(@, [address |-> addr]) ELSE @,
                      !.updated_at = t]
    ELSE [s EXCEPT !.contact_data = dict_update(@, [k \in {field_name} |-> field_value]),
                   !.updated_at = t]

contact_reset(s, t) == ContactWorkflowSession(t)

to_contact_create_ok(s) ==
    /\ Truthy(s.contact_data["name"])
    /\ Truthy(s.contact_data["email_address"])
    /\ s.contact_data["address"] # AddrNone
    /\ IsEmail(s.contact_data["email_address"])
    /\ Truthy(s.contact_data["address"].AddressLine1)
    /\ Truthy(s.contact_data["address"].City)
    /\ Truthy(s.contact_data["address"].PostalCode)

(* Variant: a stored session is returned whatever its age *)
get_contact_session_ageless(store, session_id, t) ==
    IF Live(store, session_id) THEN store[session_id] ELSE ContactWorkflowSession(t)

(* Variant: a read refreshes the age of the stored session *)
get_contact_session_touching(store, session_id, t) ==
    IF Live(store, session_id) /\ ~Expired(store[session_id], t)
    THEN [store[session_id] EXCEPT !.updated_at = t]
    ELSE ContactWorkflowSession(t)

get_contact_session(store, session_id, t) ==
    IF Live(store, session_id) /\ ~Expired(store[session_id], t)
    THEN store[session_id]
    ELSE ContactWorkflowSession(t)

(* len(expired): the number cleanup_expired_sessions returns *)
cleanup_expired_sessions_count(store, t) ==
    Cardinality({sid \in DOMAIN store : Live(store, sid) /\ Expired(store[sid], t)})

(* Variant: a session is removed as soon as its age reaches the limit *)
cleanup_expired_sessions_at_limit(store, t) ==
    [sid \in DOMAIN store |->
        IF Live(store, sid) /\ t - store[sid].updated_at >= SESSION_TTL
        THEN NoSession ELSE store[sid]]

cleanup_expired_sessions(store, t) ==
    [sid \in DOMAIN store |->
        IF Live(store, sid) /\ Expired(store[sid], t) THEN NoSession ELSE store[sid]]

---------------------------------------------------------------------------
(* One handled request: counted, and the clock and workflow kind stay *)

Request(k) ==
    /\ kind = k
    /\ nreq < MaxRequests
    /\ nreq' = nreq + 1
    /\ UNCHANGED <<kind, now, service_vars, inflight, cache>>

(* common/response_negotiator.py: the error of the response envelope; the  *)
(* field is in it only when the caller passes one                          *)
json_error(code, message, field) == [code |-> code, message |-> message, field |-> field]

(* A response: success, or json_error(code, message) with no field passed *)
Respond(code) ==
    /\ resp' = code
    /\ resp_field' = IF code = "ok" THEN None ELSE json_error(code, "", None).field

Store(sid, s, code) ==
    /\ sessions' = [sessions EXCEPT ![sid] = s]
    /\ Respond(code)

Reject(code) ==
    /\ UNCHANGED sessions
    /\ Respond(code)

---------------------------------------------------------------------------
(* Contact workflow: contact_workflow/routes/workflow_routes.py *)

(* GET /contact/new *)
new_contact_workflow(is_auth, has_id, sid, step) ==
    /\ Request("contact")
    /\ IF ~is_auth THEN Reject("AUTH_REQUIRED")
       ELSE LET cleaned == cleanup_expired_sessions(sessions, now)
            IN IF has_id
               THEN LET s0 == get_contact_session(cleaned, sid, now)
                        s1 == IF step # None /\ (InSeq(step, s0.completed_steps) \/ step = s0.current_step)
                              THEN [s0 EXCEPT !.current_step = step]
                              ELSE s0
                    IN /\ sessions' = [cleaned EXCEPT ![sid] = s1]
                       /\ Respond("ok")
               ELSE /\ ~Live(cleaned, sid)
                    /\ step = None
                    /\ sessions' = [cleaned EXCEPT ![sid] = ContactWorkflowSession(now)]
                    /\ Respond("ok")

(* POST /contact/start *)
start_contact_workflow(sid) ==
    /\ Request("contact")
    /\ LET s0 == get_contact_session(sessions, sid, now)
       IN Store(sid, IF s0.current_step = "welcome"
                     THEN base_advance_step(ContactSteps, s0, now) ELSE s0, "ok")

(* render_review_step reads the address with dict.get, which returns the   *)
(* stored None: AttributeError                                             *)
contact_render_review_raises(s) == s.contact_data["address"] = AddrNone

(* POST /contact/go-to-step.  The Interactive client is answered with the  *)
(* rendered step; an exception while rendering is answered with an error,  *)
(* after current_step was assigned.                                        *)
(* Variant: current_step is assigned before the access check rejects *)
contact_go_to_step_moving(session_id, step, is_mobile) ==
    /\ Request("contact")
    /\ IF ~validate_session_id(session_id) THEN Reject("SESSION_EXPIRED")
       ELSE LET s0 == get_contact_session(sessions, session_id, now)
            IN IF ~InSeq(step, ContactSteps) THEN Store(session_id, s0, "INVALID_STEP")
               ELSE Store(session_id, [s0 EXCEPT !.current_step = step],
                          IF ~(InSeq(step, s0.completed_steps) \/ step = s0.current_step)
                          THEN "STEP_NOT_ACCESSIBLE"
                          ELSE IF ~is_mobile /\ step = "review" /\ contact_render_review_raises(s0)
                          THEN "NAVIGATION_ERROR" ELSE "ok")

contact_go_to_step(session_id, step, is_mobile) ==
    /\ Request("contact")
    /\ IF ~validate_session_id(session_id) THEN Reject("SESSION_EXPIRED")
       ELSE LET s0 == get_contact_session(sessions, session_id, now)
            IN IF ~InSeq(step, ContactSteps) THEN Store(session_id, s0, "INVALID_STEP")
               ELSE IF InSeq(step, s0.completed_steps) \/ step = s0.current_step
                    THEN Store(session_id, [s0 EXCEPT !.current_step = step],
                               IF ~is_mobile /\ step = "review" /\ contact_render_review_raises(s0)
                               THEN "NAVIGATION_ERROR" ELSE "ok")
                    ELSE Store(session_id, s0, "STEP_NOT_ACCESSIBLE")

(* POST /contact/reset *)
contact_reset_workflow(sid) ==
    /\ Request("contact")
    /\ Store(sid, contact_reset(get_contact_session(sessions, sid, now), now), "ok")

(* GET /contact/step-prompt *)
contact_get_step_prompt(sid) ==
    /\ Request("contact")
    /\ Store(sid, get_contact_session(sessions, sid, now), "ok")

---------------------------------------------------------------------------
(* Contact workflow: contact_workflow/routes/step_routes.py *)

(* POST /contact/step *)
process_contact_step(session_id, step, is_mobile, csrf_ok, has_key, outcome, utt) ==
    /\ Request("contact")
    /\ IF ~is_mobile /\ ~csrf_ok THEN Reject("CSRF_INVALID")
       ELSE IF ~validate_session_id(session_id) THEN Reject("SESSION_EXPIRED")
       ELSE LET s0 == get_contact_session(sessions, session_id, now)
            IN IF ~has_key THEN Store(session_id, s0, "API_KEY_MISSING")
               ELSE IF outcome = "transcribe_fail"
                    THEN Store(session_id, s0,
                               json_error("VALIDATION_ERROR",
                                          VoiceException(step, outcome).message, None).code)
               ELSE IF step \notin ContactVoiceSteps THEN Store(session_id, s0, "PROCESSING_ERROR")
               ELSE IF outcome # "ok"
                    THEN Store(session_id, s0,
                               json_error(VoiceErrorCode(outcome),
                                          VoiceException(step, outcome).message, None).code)
               ELSE Store(session_id,
                          contact_store_step_result(s0, step, utt.parsed, utt.transcript, now),
                          "ok")

(* POST /contact/confirm-step *)
contact_confirm_step(sid, step) ==
    /\ Request("contact")
    /\ LET s0 == get_contact_session(sessions, sid, now)
           current_step == IF step = None THEN s0.current_step ELSE step
           s1 == IF InSeq(current_step, s0.completed_steps) THEN s0
                 ELSE [s0 EXCEPT !.completed_steps = Append(@, current_step)]
       IN IF advance_step_raises(ContactSteps, s1)
          THEN Store(sid, s1, "CONFIRMATION_ERROR")
          ELSE Store(sid, base_advance_step(ContactSteps, s1, now), "ok")

(* GET /contact/summary *)
get_contact_summary(sid) ==
    /\ Request("contact")
    /\ Store(sid, get_contact_session(sessions, sid, now), "ok")

(* POST /contact/update-field *)
update_contact_field(session_id, field_name, field_value) ==
    /\ Request("contact")
    /\ IF ~validate_session_id(session_id) THEN Reject("SESSION_EXPIRED")
       ELSE Store(session_id,
                  contact_update_field(get_contact_session(sessions, session_id, now),
                                       field_name, field_value, now),
                  "ok")

---------------------------------------------------------------------------
(* Contact workflow: contact_workflow/routes/submission_routes.py *)

(* POST /contact/proceed-to-submit *)
contact_proceed_to_submit(sid) ==
    /\ Request("contact")
    /\ LET s0 == get_contact_session(sessions, sid, now)
       IN IF ~to_contact_create_ok(s0) THEN Store(sid, s0, "MISSING_DATA")
          ELSE Store(sid,
                     [s0 EXCEPT !.completed_steps = IF InSeq("review", @) THEN @
                                                    ELSE Append(@, "review"),
                                !.current_step = "final_submit"],
                     "ok")

(* POST /contact/submit-to-xero *)
contact_submit_to_xero(session_id, outcome) ==
    /\ Request("contact")
    /\ IF ~validate_session_id(session_id) THEN Reject("SESSION_EXPIRED")
       ELSE LET s0 == get_contact_session(sessions, session_id, now)
            IN IF ~to_contact_create_ok(s0) THEN Store(session_id, s0, "INVALID_DATA")
               ELSE IF outcome # "ok" THEN Store(session_id, s0, outcome)
               ELSE Store(session_id, [s0 EXCEPT !.current_step = "complete"], "ok")

(* POST /contact/complete *)
complete_contact_workflow(sid) ==
    /\ Request("contact")
    /\ Store(sid, [get_contact_session(sessions, sid, now) EXCEPT !.current_step = "complete"], "ok")

(* Request inputs are enumerated so that every early exit of a handler is  *)
(* taken by one request and every other path by each of its inputs.        *)
WithBadSessionId(Args) ==
    {<<sid, a>> : sid \in SessIds, a \in Args}
        \cup {<<BadSessionId, CHOOSE a \in Args : TRUE>>}

NewWorkflowRequests(step_inputs) ==
    {[is_auth |-> FALSE, has_id |-> FALSE, step |-> None],
     [is_auth |-> TRUE, has_id |-> FALSE, step |-> None]}
        \cup {[is_auth |-> TRUE, has_id |-> TRUE, step |-> step] : step \in step_inputs \cup {None}}

(* Voice submissions: every early exit once, every stored result once.     *)
(* A request without a valid X-CSRF-Token is made by either client kind.   *)
NoUtterance == [transcript |-> "", parsed |-> EmptyDict]

VoiceRequest(session_id, step, is_mobile, csrf_ok, has_key, outcome, utt) ==
    [session_id |-> session_id, step |-> step, is_mobile |-> is_mobile, csrf_ok |-> csrf_ok,
     has_key |-> has_key, outcome |-> outcome, utt |-> utt]

VoiceRequests(voice_steps, utterances) ==
    {VoiceRequest(sid, CHOOSE step \in voice_steps : TRUE, is_mobile, FALSE, TRUE, "ok", u) :
        sid \in SessIds, is_mobile \in BOOLEAN,
        u \in utterances[CHOOSE step \in voice_steps : TRUE]}
    \cup {VoiceRequest(BadSessionId, "name", TRUE, TRUE, TRUE, "ok", NoUtterance)}
    \cup {VoiceRequest(sid, "name", TRUE, TRUE, FALSE, "ok", NoUtterance) : sid \in SessIds}
    \cup {VoiceRequest(sid, BogusStep, TRUE, TRUE, TRUE, "ok", NoUtterance) : sid \in SessIds}
    \cup {VoiceRequest(sid, step, TRUE, TRUE, TRUE, o, NoUtterance) :
            sid \in SessIds, step \in voice_steps, o \in VoiceOutcomes \ {"ok"}}
    \cup {VoiceRequest(sid, CHOOSE step \in voice_steps : TRUE, FALSE, TRUE, TRUE, "ok", u) :
            sid \in SessIds, u \in utterances[CHOOSE step \in voice_steps : TRUE]}
    \cup UNION {{VoiceRequest(sid, step, TRUE, TRUE, TRUE, "ok", u) :
                   sid \in SessIds, u \in utterances[step]} : step \in voice_steps}

ContactVoiceRequests ==
    VoiceRequests(ContactVoiceSteps, [step \in ContactVoiceSteps |-> ContactUtterances(step)])

ContactNext ==
    \/ \E sid \in SessIds, r \in NewWorkflowRequests(ContactStepInputs) :
          new_contact_workflow(r.is_auth, r.has_id, sid, r.step)
    \/ \E sid \in SessIds : start_contact_workflow(sid)
    \/ \E r \in WithBadSessionId(ContactStepInputs) : contact_go_to_step(r[1], r[2], TRUE)
    \/ \E sid \in SessIds : contact_go_to_step(sid, "review", FALSE)
    \/ \E sid \in SessIds : contact_reset_workflow(sid)
    \/ \E sid \in SessIds : contact_get_step_prompt(sid)
    \/ \E req \in ContactVoiceRequests :
          process_contact_step(req.session_id, req.step, req.is_mobile, req.csrf_ok,
                               req.has_key, req.outcome, req.utt)
    \/ \E sid \in SessIds, step \in ContactStepInputs \cup {None} : contact_confirm_step(sid, step)
    \/ \E sid \in SessIds : get_contact_summary(sid)
    \/ \E r \in WithBadSessionId(ContactFieldNames), v \in FieldValues :
          update_contact_field(r[1], r[2], v)
    \/ \E sid \in SessIds : contact_proceed_to_submit(sid)
    \/ \E r \in WithBadSessionId(SubmitOutcomes) : contact_submit_to_xero(r[1], r[2])
    \/ \E sid \in SessIds : complete_contact_workflow(sid)

---------------------------------------------------------------------------
(* Invoice workflow: invoice_workflow/session_store.py *)

InvoiceSteps == <<"welcome", "contact_name", "due_date", "line_item", "review", "final_submit",
                  "complete">>

InvoiceVoiceSteps == {"contact_name", "due_date", "line_item"}

InvoiceStepInputs == {"welcome", "line_item", "review", BogusStep}

(* A line item is a dict; a str stored where an item or the item list is   *)
(* expected is kept as such: StrItem for a str standing for one item, one  *)
(* chr cell per character for a str standing where the list is expected.   *)
NoneItem == [py |-> None]
StrItem(v) == [str |-> v]
StrLen(v) == CASE v = "edited by hand" -> 14 [] OTHER -> 0
StrCells(v) == [i \in 1..StrLen(v) |-> [chr |-> v]]
IsDictItem(item) == "description" \in DOMAIN item
IsItemList(items) == \A i \in 1..Len(items) : IsDictItem(items[i])
IsStrList(items) == Len(items) > 0 /\ "chr" \in DOMAIN items[1]

InvoiceUtterances(step) ==
    CASE step = "contact_name" ->
           {[transcript |-> "acme limited",
             parsed |-> [contact_name |-> "Acme Ltd", is_organization |-> TRUE]]}
      [] step = "due_date" ->
           {[transcript |-> "in thirty days",
             parsed |-> [due_date |-> "2026-12-01", days_from_now |-> 30]]}
      [] step = "line_item" ->
           {[transcript |-> "ten hours of consulting at 150",
             parsed |-> [description |-> "Consulting", quantity |-> 10, unit_price |-> 150,
                         account_code |-> "200", vat_rate |-> "standard"]],
            [transcript |-> "one licence at 99 zero rated",
             parsed |-> [description |-> "Licence", quantity |-> 1, unit_price |-> 99,
                         account_code |-> "200", vat_rate |-> "zero_rated"]]}
      [] OTHER -> {}

InvoiceFieldNames == {"contact_name", "line_items", "current_line_item", "line_item_0_description"}

InvoiceWorkflowSession(t) ==
    [kind |-> "invoice",
     current_step |-> "welcome",
     completed_steps |-> <<>>,
     workflow_data |-> EmptyDict,
     step_errors |-> EmptyDict,
     updated_at |-> t,
     invoice_data |-> [contact_name |-> None, due_date |-> None, line_items |-> <<>>,
                       current_line_item |-> NoneItem],
     line_item_count |-> 0,
     has_pending_item |-> FALSE,
     wd_alias |-> 0,
     transcripts |-> EmptyDict,
     parsed_results |-> EmptyDict,
     errors |-> EmptyDict]

(* Variant: the pending item does not hold the step *)
invoice_advance_step_unguarded(s, t) == base_advance_step(InvoiceSteps, s, t)

invoice_advance_step(s, t) ==
    IF s.current_step = "line_item" /\ s.has_pending_item
    THEN s
    ELSE base_advance_step(InvoiceSteps, s, t)

invoice_validate_step_data(step, data) ==
    CASE step = "contact_name" -> Truthy(dict_get(data, "contact_name"))
      [] step = "due_date" -> Truthy(dict_get(data, "due_date"))
      [] step = "line_item" ->
           \/ ("line_items" \in DOMAIN data /\ Len(data["line_items"]) > 0)
           \/ ("current_line_item" \in DOMAIN data /\ data["current_line_item"] # NoneItem)
      [] OTHER -> step \in {"welcome", "review", "final_submit", "complete"}

invoice_can_advance(s) == invoice_validate_step_data(s.current_step, s.invoice_data)

parse_invoice_data(step, parsed_result) ==
    CASE step = "contact_name" /\ "contact_name" \in DOMAIN parsed_result ->
           [contact_name |-> parsed_result.contact_name]
      [] step = "due_date" /\ "due_date" \in DOMAIN parsed_result ->
           [due_date |-> parsed_result.due_date]
      [] step = "line_item" /\ "description" \in DOMAIN parsed_result ->
           [current_line_item |-> [description |-> parsed_result.description,
                                   quantity |-> parsed_result.quantity,
                                   unit_price |-> parsed_result.unit_price,
                                   account_code |-> parsed_result.account_code,
                                   vat_rate |-> parsed_result.vat_rate]]
      [] OTHER -> EmptyDict

(* ValueError when the list is full; a str has no append *)
add_line_item_raises(s) ==
    \/ Len(s.invoice_data["line_items"]) >= max_line_items
    \/ IsStrList(s.invoice_data["line_items"])

(* Variant: the item is appended and stays pending *)
add_line_item_keeping_pending(s, item_data) ==
    [s EXCEPT !.invoice_data = dict_update(@, [line_items |-> Append(@["line_items"], item_data)]),
              !.line_item_count = Len(s.invoice_data["line_items"]) + 1]

(* wd_alias: index in line_items of the dict object that workflow_data     *)
(* still references under "current_line_item" (0: not in the list).        *)
add_line_item(s, item_data) ==
    LET items == Append(s.invoice_data["line_items"], item_data)
    IN [s EXCEPT !.invoice_data = dict_update(@, [line_items |-> items,
                                                  current_line_item |-> NoneItem]),
                 !.line_item_count = Len(items),
                 !.has_pending_item = FALSE,
                 !.wd_alias = IF IsDictItem(item_data) THEN Len(items) ELSE @]

clear_current_item(s) ==
    [s EXCEPT !.invoice_data = dict_update(@, [current_line_item |-> NoneItem]),
              !.has_pending_item = FALSE]

(* Variant: the line_item step is marked complete by the parse, like the   *)
(* other voice steps                                                       *)
invoice_store_step_result_marking(s, step, result, transcript, t) ==
    LET parsed_data == parse_invoice_data(step, result)
        s1 == [s EXCEPT !.transcripts = dict_update(@, [k \in {step} |-> transcript]),
                        !.parsed_results = dict_update(@, [k \in {step} |-> result]),
                        !.invoice_data = dict_update(@, parsed_data),
                        !.workflow_data = dict_update(@, parsed_data),
                        !.wd_alias = IF "current_line_item" \in DOMAIN parsed_data THEN 0 ELSE @]
        s2 == IF step = "line_item" /\ "current_line_item" \in DOMAIN parsed_data
              THEN [s1 EXCEPT !.has_pending_item = TRUE] ELSE s1
    IN IF parsed_data # EmptyDict THEN mark_step_complete(s2, step, parsed_data, t) ELSE s2

invoice_store_step_result(s, step, result, transcript, t) ==
    LET parsed_data == parse_invoice_data(step, result)
        s1 == [s EXCEPT !.transcripts = dict_update(@, [k \in {step} |-> transcript]),
                        !.parsed_results = dict_update(@, [k \in {step} |-> result]),
                        !.invoice_data = dict_update(@, parsed_data),
                        !.workflow_data = dict_update(@, parsed_data),
                        !.wd_alias = IF "current_line_item" \in DOMAIN parsed_data THEN 0 ELSE @]
        s2 == IF step = "line_item" /\ "current_line_item" \in DOMAIN parsed_data
              THEN [s1 EXCEPT !.has_pending_item = TRUE] ELSE s1
    IN IF parsed_data # EmptyDict /\ step # "line_item"
       THEN mark_step_complete(s2, step, parsed_data, t) ELSE s2

(* field_name "line_item_<idx>_<field>" *)
IsLineItemField(field_name) == field_name \in {"line_item_0_description"}
LineItemIdx(field_name) == 0
LineItemField(field_name) == "description"

(* TypeError: item assignment into a str *)
invoice_update_field_raises(s, field_name) ==
    /\ IsLineItemField(field_name)
    /\ LineItemIdx(field_name) < Len(s.invoice_data["line_items"])
    /\ ~IsDictItem(s.invoice_data["line_items"][LineItemIdx(field_name) + 1])

invoice_update_field(s, field_name, field_value, t) ==
    IF IsLineItemField(field_name)
    THEN IF LineItemIdx(field_name) < Len(s.invoice_data["line_items"])
         THEN LET i == LineItemIdx(field_name) + 1
                  item == [s.invoice_data["line_items"][i] EXCEPT
                              ![LineItemField(field_name)] = field_value]
              IN [s EXCEPT !.invoice_data =
                               dict_update(@, [line_items |-> [@["line_items"] EXCEPT ![i] = item]]),
                           !.workflow_data = IF s.wd_alias = i
                                             THEN dict_update(@, [current_line_item |-> item])
                                             ELSE @,
                           !.updated_at = t]
         ELSE [s EXCEPT !.updated_at = t]
    ELSE IF field_name = "line_items"
    THEN [s EXCEPT !.invoice_data = dict_update(@, [line_items |-> StrCells(field_value)]),
                   !.wd_alias = 0,
                   !.updated_at = t]
    ELSE IF field_name = "current_line_item"
    THEN [s EXCEPT !.invoice_data = dict_update(@, [current_line_item |-> StrItem(field_value)]),
                   !.updated_at = t]
    ELSE [s EXCEPT !.invoice_data = dict_update(@, [k \in {field_name} |-> field_value]),
                   !.updated_at = t]

invoice_reset(s, t) ==
    [InvoiceWorkflowSession(t) EXCEPT !.has_pending_item = s.has_pending_item]

to_invoice_create_ok(s) ==
    /\ Truthy(s.invoice_data["contact_name"])
    /\ Truthy(s.invoice_data["due_date"])
    /\ Len(s.invoice_data["line_items"]) > 0

get_invoice_session(store, session_id, t) ==
    IF Live(store, session_id) /\ ~Expired(store[session_id], t)
    THEN store[session_id]
    ELSE InvoiceWorkflowSession(t)

---------------------------------------------------------------------------
(* Invoice workflow: invoice_workflow/routes/workflow_routes.py.  The      *)
(* paths /confirm-line-item, /add-another-item and /proceed-to-review are  *)
(* defined here and in step_routes.py.  The routers are taken to be        *)
(* included step_routes first, as contact_workflow/routes/__init__.py      *)
(* includes them, so the handlers of step_routes.py serve these paths and  *)
(* the ones of this file never receive a request.                          *)

(* GET /invoice/new *)
new_invoice_workflow(is_auth, has_id, sid, step) ==
    /\ Request("invoice")
    /\ IF ~is_auth THEN Reject("AUTH_REQUIRED")
       ELSE LET cleaned == cleanup_expired_sessions(sessions, now)
            IN IF has_id
               THEN LET s0 == get_invoice_session(cleaned, sid, now)
                        s1 == IF step # None /\ (InSeq(step, s0.completed_steps) \/ step = s0.current_step)
                              THEN [s0 EXCEPT !.current_step = step]
                              ELSE s0
                    IN /\ sessions' = [cleaned EXCEPT ![sid] = s1]
                       /\ Respond("ok")
               ELSE /\ ~Live(cleaned, sid)
                    /\ step = None
                    /\ sessions' = [cleaned EXCEPT ![sid] = InvoiceWorkflowSession(now)]
                    /\ Respond("ok")

(* POST /invoice/start *)
start_invoice_workflow(sid) ==
    /\ Request("invoice")
    /\ LET s0 == get_invoice_session(sessions, sid, now)
       IN Store(sid, IF s0.current_step = "welcome"
                     THEN invoice_advance_step(s0, now) ELSE s0, "ok")

(* POST /invoice/go-to-step *)
(* Variant: every step of the catalog can be navigated to *)
invoice_can_navigate_anywhere(s, step) == TRUE

invoice_can_navigate(s, step) ==
    \/ step = "line_item" /\ Len(s.invoice_data["line_items"]) > 0
    \/ InSeq(step, s.completed_steps)
    \/ step = s.current_step

(* render_review_step indexes every line item as a dict: TypeError on a str *)
invoice_render_review_raises(s) == ~IsItemList(s.invoice_data["line_items"])

invoice_go_to_step(session_id, step, is_mobile) ==
    /\ Request("invoice")
    /\ IF ~validate_session_id(session_id) THEN Reject("SESSION_EXPIRED")
       ELSE LET s0 == get_invoice_session(sessions, session_id, now)
            IN IF ~InSeq(step, InvoiceSteps) THEN Store(session_id, s0, "INVALID_STEP")
               ELSE IF invoice_can_navigate(s0, step)
                    THEN Store(session_id, [s0 EXCEPT !.current_step = step],
                               IF ~is_mobile /\ step = "review" /\ invoice_render_review_raises(s0)
                               THEN "NAVIGATION_ERROR" ELSE "ok")
                    ELSE Store(session_id, s0, "STEP_NOT_ACCESSIBLE")

(* POST /invoice/reset *)
invoice_reset_workflow(sid) ==
    /\ Request("invoice")
    /\ Store(sid, invoice_reset(get_invoice_session(sessions, sid, now), now), "ok")

(* GET /invoice/step-prompt *)
invoice_get_step_prompt(sid) ==
    /\ Request("invoice")
    /\ Store(sid, get_invoice_session(sessions, sid, now), "ok")

---------------------------------------------------------------------------
(* Invoice workflow: invoice_workflow/routes/step_routes.py *)

(* POST /invoice/step *)
(* Variant: the extracted result is stored before the sanitizers run *)
process_invoice_step_storing_first(session_id, step, is_mobile, csrf_ok, has_key, outcome, utt) ==
    /\ Request("invoice")
    /\ IF ~is_mobile /\ ~csrf_ok THEN Reject("CSRF_INVALID")
       ELSE IF ~validate_session_id(session_id) THEN Reject("SESSION_EXPIRED")
       ELSE LET s0 == get_invoice_session(sessions, session_id, now)
                u == IF utt = NoUtterance /\ step \in InvoiceVoiceSteps
                     THEN CHOOSE x \in InvoiceUtterances(step) : TRUE ELSE utt
            IN IF ~has_key THEN Store(session_id, s0, "API_KEY_MISSING")
               ELSE IF outcome = "transcribe_fail" THEN Store(session_id, s0, "VALIDATION_ERROR")
               ELSE IF step \notin InvoiceVoiceSteps THEN Store(session_id, s0, "PROCESSING_ERROR")
               ELSE Store(session_id,
                          IF outcome \in {"ok", "sanitize_fail"}
                          THEN invoice_store_step_result(s0, step, u.parsed, u.transcript, now)
                          ELSE s0,
                          IF outcome = "ok" THEN "ok" ELSE VoiceErrorCode(outcome))

process_invoice_step(session_id, step, is_mobile, csrf_ok, has_key, outcome, utt) ==
    /\ Request("invoice")
    /\ IF ~is_mobile /\ ~csrf_ok THEN Reject("CSRF_INVALID")
       ELSE IF ~validate_session_id(session_id) THEN Reject("SESSION_EXPIRED")
       ELSE LET s0 == get_invoice_session(sessions, session_id, now)
            IN IF ~has_key THEN Store(session_id, s0, "API_KEY_MISSING")
               ELSE IF outcome = "transcribe_fail"
                    THEN Store(session_id, s0,
                               json_error("VALIDATION_ERROR",
                                          VoiceException(step, outcome).message, None).code)
               ELSE IF step \notin InvoiceVoiceSteps THEN Store(session_id, s0, "PROCESSING_ERROR")
               ELSE IF outcome # "ok"
                    THEN Store(session_id, s0,
                               json_error(VoiceErrorCode(outcome),
                                          VoiceException(step, outcome).message, None).code)
               ELSE Store(session_id,
                          invoice_store_step_result(s0, step, utt.parsed, utt.transcript, now),
                          "ok")

(* POST /invoice/confirm-step *)
invoice_confirm_step(sid, step) ==
    /\ Request("invoice")
    /\ LET s0 == get_invoice_session(sessions, sid, now)
           current_step == IF step = None THEN s0.current_step ELSE step
           s1 == IF current_step # "line_item" /\ ~InSeq(current_step, s0.completed_steps)
                 THEN [s0 EXCEPT !.completed_steps = Append(@, current_step)]
                 ELSE s0
       IN IF current_step = "line_item" /\ s0.has_pending_item
          THEN Store(sid, s0, "requires_line_item_decision")
          ELSE IF ~(s1.current_step = "line_item" /\ s1.has_pending_item)
                  /\ advance_step_raises(InvoiceSteps, s1)
          THEN Store(sid, s1, "CONFIRMATION_ERROR")
          ELSE Store(sid, invoice_advance_step(s1, now), "ok")

(* The pending item is saved first; a full list raises out of the handler *)
save_pending_raises(s) ==
    s.invoice_data["current_line_item"] # NoneItem /\ add_line_item_raises(s)

save_pending(s) ==
    IF s.invoice_data["current_line_item"] # NoneItem
    THEN add_line_item(s, s.invoice_data["current_line_item"])
    ELSE s

(* POST /invoice/confirm-line-item *)
confirm_line_item(session_id, add_another) ==
    /\ Request("invoice")
    /\ IF ~validate_session_id(session_id) THEN Reject("SESSION_EXPIRED")
       ELSE LET s0 == get_invoice_session(sessions, session_id, now)
                s1 == save_pending(s0)
            IN IF save_pending_raises(s0) THEN Store(session_id, s0, "LINE_ITEM_ERROR")
               ELSE IF add_another
               THEN Store(session_id, [s1 EXCEPT !.current_step = "line_item",
                                                 !.has_pending_item = FALSE], "ok")
               ELSE Store(session_id,
                          [s1 EXCEPT !.completed_steps = IF InSeq("line_item", @) THEN @
                                                         ELSE Append(@, "line_item"),
                                     !.current_step = "review",
                                     !.has_pending_item = FALSE], "ok")

(* GET /invoice/summary *)
get_invoice_summary(sid) ==
    /\ Request("invoice")
    /\ Store(sid, get_invoice_session(sessions, sid, now), "ok")

(* POST /invoice/update-field *)
update_invoice_field(session_id, field_name, field_value) ==
    /\ Request("invoice")
    /\ IF ~validate_session_id(session_id) THEN Reject("SESSION_EXPIRED")
       ELSE LET s0 == get_invoice_session(sessions, session_id, now)
            IN IF invoice_update_field_raises(s0, field_name)
               THEN Store(session_id, s0, "UPDATE_ERROR")
               ELSE Store(session_id, invoice_update_field(s0, field_name, field_value, now), "ok")

(* POST /invoice/add-another-item *)
add_another_item(sid) ==
    /\ Request("invoice")
    /\ LET s0 == get_invoice_session(sessions, sid, now)
       IN IF save_pending_raises(s0) THEN Store(sid, s0, "ADD_ITEM_ERROR")
          ELSE Store(sid, [save_pending(s0) EXCEPT !.current_step = "line_item"], "ok")

(* POST /invoice/proceed-to-review *)
proceed_to_review(sid) ==
    /\ Request("invoice")
    /\ LET s0 == get_invoice_session(sessions, sid, now)
           s1 == save_pending(s0)
       IN IF save_pending_raises(s0) THEN Store(sid, s0, "REVIEW_ERROR")
          ELSE IF Len(s1.invoice_data["line_items"]) = 0 THEN Store(sid, s1, "NO_LINE_ITEMS")
          ELSE Store(sid,
                     [s1 EXCEPT !.completed_steps = IF InSeq("line_item", @) THEN @
                                                    ELSE Append(@, "line_item"),
                                !.current_step = "review"], "ok")

(* POST /invoice/clear-line-item: list.pop on a str raises *)
clear_line_item(session_id, item_index) ==
    /\ Request("invoice")
    /\ IF ~validate_session_id(session_id) THEN Reject("SESSION_EXPIRED")
       ELSE LET s0 == get_invoice_session(sessions, session_id, now)
                items == s0.invoice_data["line_items"]
                rest == [i \in 1..(Len(items) - 1) |->
                            IF i <= item_index THEN items[i] ELSE items[i + 1]]
            IN IF 0 <= item_index /\ item_index < Len(items)
               THEN IF IsStrList(items)
                    THEN Store(session_id, s0, "CLEAR_ITEM_ERROR")
                    ELSE Store(session_id,
                               [s0 EXCEPT !.invoice_data = dict_update(@, [line_items |-> rest]),
                                          !.line_item_count = Len(rest),
                                          !.wd_alias = IF @ = item_index + 1 THEN 0
                                                       ELSE IF @ > item_index + 1 THEN @ - 1
                                                       ELSE @],
                               "ok")
               ELSE Store(session_id, s0, "ok")

(* POST /invoice/clear-all-line-items *)
clear_all_line_items(session_id) ==
    /\ Request("invoice")
    /\ IF ~validate_session_id(session_id) THEN Reject("SESSION_EXPIRED")
       ELSE Store(session_id,
                  [get_invoice_session(sessions, session_id, now) EXCEPT
                      !.invoice_data = dict_update(@, [line_items |-> <<>>,
                                                       current_line_item |-> NoneItem]),
                      !.line_item_count = 0,
                      !.has_pending_item = FALSE,
                      !.wd_alias = 0],
                  "ok")

---------------------------------------------------------------------------
(* Invoice workflow: invoice_workflow/routes/submission_routes.py *)

(* POST /invoice/proceed-to-submit *)
invoice_proceed_to_submit(sid) ==
    /\ Request("invoice")
    /\ LET s0 == get_invoice_session(sessions, sid, now)
       IN IF ~to_invoice_create_ok(s0) THEN Store(sid, s0, "MISSING_DATA")
          ELSE Store(sid,
                     [s0 EXCEPT !.completed_steps = IF InSeq("review", @) THEN @
                                                    ELSE Append(@, "review"),
                                !.current_step = "final_submit"],
                     "ok")

(* POST /invoice/submit-to-xero: only a list of item dicts can be created *)
invoice_submit_to_xero(session_id, outcome) ==
    /\ Request("invoice")
    /\ IF ~validate_session_id(session_id) THEN Reject("SESSION_EXPIRED")
       ELSE LET s0 == get_invoice_session(sessions, session_id, now)
            IN IF ~to_invoice_create_ok(s0) THEN Store(session_id, s0, "INVALID_DATA")
               ELSE IF outcome # "ok" THEN Store(session_id, s0, outcome)
               ELSE /\ IsItemList(s0.invoice_data["line_items"])
                    /\ Store(session_id, [s0 EXCEPT !.current_step = "complete"], "ok")

(* POST /invoice/complete *)
complete_invoice_workflow(sid) ==
    /\ Request("invoice")
    /\ Store(sid, [get_invoice_session(sessions, sid, now) EXCEPT !.current_step = "complete"], "ok")

InvoiceVoiceRequests ==
    VoiceRequests(InvoiceVoiceSteps, [step \in InvoiceVoiceSteps |-> InvoiceUtterances(step)])

InvoiceNext ==
    \/ \E sid \in SessIds, r \in NewWorkflowRequests(InvoiceStepInputs) :
          new_invoice_workflow(r.is_auth, r.has_id, sid, r.step)
    \/ \E sid \in SessIds : start_invoice_workflow(sid)
    \/ \E r \in WithBadSessionId(InvoiceStepInputs) : invoice_go_to_step(r[1], r[2], TRUE)
    \/ \E sid \in SessIds : invoice_go_to_step(sid, "review", FALSE)
    \/ \E sid \in SessIds : invoice_reset_workflow(sid)
    \/ \E sid \in SessIds : invoice_get_step_prompt(sid)
    \/ \E req \in InvoiceVoiceRequests :
          process_invoice_step(req.session_id, req.step, req.is_mobile, req.csrf_ok,
                               req.has_key, req.outcome, req.utt)
    \/ \E sid \in SessIds, step \in InvoiceStepInputs \cup {None} : invoice_confirm_step(sid, step)
    \/ \E r \in WithBadSessionId(BOOLEAN) : confirm_line_item(r[1], r[2])
    \/ \E sid \in SessIds : get_invoice_summary(sid)
    \/ \E r \in WithBadSessionId(InvoiceFieldNames), v \in FieldValues :
          update_invoice_field(r[1], r[2], v)
    \/ \E sid \in SessIds : add_another_item(sid)
    \/ \E sid \in SessIds : proceed_to_review(sid)
    \/ \E r \in WithBadSessionId(0..1) : clear_line_item(r[1], r[2])
    \/ \E sid \in SessIds \cup {BadSessionId} : clear_all_line_items(sid)
    \/ \E sid \in SessIds : invoice_proceed_to_submit(sid)
    \/ \E r \in WithBadSessionId(SubmitOutcomes) : invoice_submit_to_xero(r[1], r[2])
    \/ \E sid \in SessIds : complete_invoice_workflow(sid)

---------------------------------------------------------------------------
(* Base workflow: workflow_base/base_router.py over the catalog of         *)
(* workflow_base/tests/test_base_session.py.  The store of the router is   *)
(* keyed by the id kept in the HTTP session; sessions never expire here.   *)

BaseSteps == <<"step1", "step2", "step3", "complete">>

BaseStepInputs == {"step1", "step2", "step3", "complete", BogusStep}

TestWorkflowSession(t) ==
    [kind |-> "base",
     current_step |-> "step1",
     completed_steps |-> <<>>,
     workflow_data |-> EmptyDict,
     step_errors |-> EmptyDict,
     updated_at |-> t]

BaseRequest ==
    /\ kind = "base"
    /\ UNCHANGED <<kind, now, nreq, service_vars, inflight, cache>>

(* POST /start *)
start_workflow(sid) ==
    /\ BaseRequest
    /\ Store(sid, TestWorkflowSession(now), "ok")

(* GET /session/{session_id} *)
get_session_status(sid) ==
    /\ BaseRequest
    /\ IF ~Live(sessions, sid) THEN Reject("404") ELSE Reject("ok")

(* POST /step/{step}/navigate *)
navigate_to_step(sid, step) ==
    /\ BaseRequest
    /\ IF ~Live(sessions, sid) THEN Reject("404")
       ELSE IF base_go_to_step_ok(BaseSteps, sessions[sid], step)
            THEN Store(sid, base_go_to_step(BaseSteps, sessions[sid], step, now), "ok")
            ELSE Reject("400")

(* POST /step/{step}/complete *)
complete_step(sid, step) ==
    /\ BaseRequest
    /\ IF ~Live(sessions, sid) THEN Reject("404")
       ELSE Store(sid,
                  base_advance_step(BaseSteps,
                                    mark_step_complete(sessions[sid], step,
                                                       [k \in {step} |-> "data"], now),
                                    now),
                  "ok")

BaseNext ==
    \/ \E sid \in SessIds : start_workflow(sid)
    \/ \E sid \in SessIds : get_session_status(sid)
    \/ \E sid \in SessIds, step \in BaseStepInputs : navigate_to_step(sid, step)
    \/ \E sid \in SessIds, step \in BaseStepInputs : complete_step(sid, step)

---------------------------------------------------------------------------
(* The clock: time passes between requests *)

Tick ==
    /\ nreq < MaxRequests
    /\ \E d \in TickMinutes :
          /\ now + d <= MaxTime
          /\ now' = now + d
    /\ nreq' = nreq + 1
    /\ UNCHANGED <<kind, sessions, resp, resp_field, service_vars, inflight, cache>>

---------------------------------------------------------------------------
(* Initial states.  An Invoice run starts from an empty store or from a    *)
(* session that was started, had contact name and due date collected and   *)
(* confirmed, and looped n times through the line-item step.               *)

LineItemLoop(s) ==
    LET u == CHOOSE x \in InvoiceUtterances("line_item") : x.parsed.description = "Consulting"
        s1 == invoice_store_step_result(s, "line_item", u.parsed, u.transcript, 0)
    IN [add_line_item(s1, s1.invoice_data["current_line_item"]) EXCEPT
           !.current_step = "line_item", !.has_pending_item = FALSE]

RECURSIVE LineItemLoops(_, _)
LineItemLoops(s, n) == IF n = 0 THEN s ELSE LineItemLoops(LineItemLoop(s), n - 1)

CollectedInvoiceSession(n) ==
    LET c == CHOOSE x \in InvoiceUtterances("contact_name") : TRUE
        d == CHOOSE x \in InvoiceUtterances("due_date") : TRUE
        s1 == invoice_advance_step(InvoiceWorkflowSession(0), 0)
        s2 == invoice_advance_step(
                  invoice_store_step_result(s1, "contact_name", c.parsed, c.transcript, 0), 0)
        s3 == invoice_advance_step(
                  invoice_store_step_result(s2, "due_date", d.parsed, d.transcript, 0), 0)
    IN LineItemLoops(s3, n)

InitialItemCounts == {0, max_line_items - 1}

(* No cookie session, no Machine client and no collaborator call yet *)
NoServiceState ==
    /\ cookie = EmptyDict
    /\ mobile_sessions = EmptyDict
    /\ issued = {}
    /\ calls = <<>>
    /\ ret = [py |-> "None"]

Init ==
    /\ kind \in {"contact", "invoice", "base"}
    /\ \/ sessions = [sid \in SessIds |-> NoSession]
       \/ /\ kind = "invoice"
          /\ \E n \in InitialItemCounts :
                sessions = [sid \in SessIds |-> CollectedInvoiceSession(n)]
    /\ now = 0
    /\ nreq = 0
    /\ resp = "none"
    /\ resp_field = None
    /\ NoServiceState
    /\ inflight = {}
    /\ cache = ModuleCaches

Next == ContactNext \/ InvoiceNext \/ BaseNext \/ Tick

Spec == Init /\ [][Next]_vars

---------------------------------------------------------------------------
(* Vocabulary of the properties *)

(* The step catalog of the running workflow kind *)
get_workflow_steps ==
    IF kind = "contact" THEN ContactSteps
    ELSE IF kind = "invoice" THEN InvoiceSteps ELSE BaseSteps

(* The session a handler works on when it is given the id sid *)
get_session(sid) ==
    IF kind = "contact" THEN get_contact_session(sessions, sid, now)
    ELSE IF kind = "invoice" THEN get_invoice_session(sessions, sid, now)
    ELSE sessions[sid]

NoDuplicates(seq) == \A i, j \in 1..Len(seq) : seq[i] = seq[j] => i = j

(* The step values requests carry, for the running workflow kind *)
StepInputs ==
    IF kind = "contact" THEN ContactStepInputs
    ELSE IF kind = "invoice" THEN InvoiceStepInputs ELSE BaseStepInputs

(* A go-to-step request for step that succeeds: it is answered with        *)
(* success and current_step is the target afterwards                       *)
GoToStepSucceeds(sid, step) ==
    /\ resp' = "ok"
    /\ Live(sessions', sid)
    /\ sessions'[sid].current_step = step
    /\ \/ \E is_mobile \in BOOLEAN : contact_go_to_step(sid, step, is_mobile)
       \/ \E is_mobile \in BOOLEAN : invoice_go_to_step(sid, step, is_mobile)
       \/ navigate_to_step(sid, step)

(* step lies more than one catalog position ahead of the session's step *)
MoreThanOneAhead(s, step) ==
    /\ InSeq(s.current_step, get_workflow_steps)
    /\ InSeq(step, get_workflow_steps)
    /\ list_index(get_workflow_steps, step) > list_index(get_workflow_steps, s.current_step) + 1

---------------------------------------------------------------------------
(* The voice-collected steps of the running workflow kind and their       *)
(* completion predicates over the draft                                    *)
VoiceCollectedSteps ==
    IF kind = "contact" THEN {"name", "email", "address"}
    ELSE {"contact_name", "due_date", "line_item"}

validate_step_data(step, s) ==
    IF kind = "contact" THEN contact_validate_step_data(step, s.contact_data)
    ELSE invoice_validate_step_data(step, s.invoice_data)

---------------------------------------------------------------------------
(* C1: in every reachable state of a Contact or Invoice session,           *)
(* completed_steps has no duplicate entries and every entry is a step of   *)
(* the workflow's catalog.                                                 *)
C1_CompletedStepsInCatalog ==
    \A sid \in SessIds :
        (kind \in {"contact", "invoice"} /\ Live(sessions, sid)) =>
            /\ NoDuplicates(sessions[sid].completed_steps)
            /\ \A i \in 1..Len(sessions[sid].completed_steps) :
                  InSeq(sessions[sid].completed_steps[i], get_workflow_steps)

C3_AtMostMaxLineItems ==
    \A sid \in SessIds :
        (kind = "invoice" /\ Live(sessions, sid)) =>
            Len(sessions[sid].invoice_data["line_items"]) <= max_line_items

(* A voice submission of step with utterance u that is parsed and stored *)
VoiceStepSucceeds(sid, step, u) ==
    \/ process_contact_step(sid, step, TRUE, TRUE, TRUE, "ok", u)
    \/ process_invoice_step(sid, step, TRUE, TRUE, TRUE, "ok", u)

AddAnotherDecision(sid) == confirm_line_item(sid, TRUE) \/ add_another_item(sid)

ProceedToReviewDecision(sid) == confirm_line_item(sid, FALSE) \/ proceed_to_review(sid)

ConfirmRequest(sid) ==
    \E step \in ContactStepInputs \cup InvoiceStepInputs \cup {None} :
        contact_confirm_step(sid, step) \/ invoice_confirm_step(sid, step)

(* The draft of a session: the data collected for the record to create *)
Draft(s) == IF s.kind = "contact" THEN s.contact_data ELSE s.invoice_data

ParsedData(step, u) ==
    IF kind = "contact" THEN parse_contact_data(step, u.parsed)
    ELSE parse_invoice_data(step, u.parsed)

Utterances(step) ==
    IF kind = "contact" THEN ContactUtterances(step) ELSE InvoiceUtterances(step)

(* C4: for an Invoice session at "line_item": a successful line_item parse *)
(* leaves a pending item; with no item committed, "add another" leaves     *)
(* exactly 1 committed item, current_step "line_item" and no pending item; *)
(* with 1 item committed and another parsed, "proceed to review" leaves    *)
(* exactly 2 committed items, "line_item" in completed_steps exactly once  *)
(* and current_step "review".                                              *)
C4_LineItemLoop ==
    [][\A sid \in SessIds :
          LET s == get_session(sid)
              pending == s.invoice_data["current_line_item"]
              committed == s.invoice_data["line_items"]
          IN (kind = "invoice" /\ s.current_step = "line_item") =>
                /\ \A u \in InvoiceUtterances("line_item") :
                      VoiceStepSucceeds(sid, "line_item", u) =>
                         /\ sessions'[sid].invoice_data["current_line_item"]
                               = parse_invoice_data("line_item", u.parsed)["current_line_item"]
                         /\ sessions'[sid].has_pending_item
                         /\ sessions'[sid].invoice_data["line_items"] = committed
                         /\ sessions'[sid].current_step = "line_item"
                         /\ ~InSeq("line_item", s.completed_steps)
                               => ~InSeq("line_item", sessions'[sid].completed_steps)
                /\ (IsDictItem(pending) /\ Len(committed) = 0 /\ AddAnotherDecision(sid)) =>
                         /\ sessions'[sid].invoice_data["line_items"] = <<pending>>
                         /\ sessions'[sid].current_step = "line_item"
                         /\ sessions'[sid].invoice_data["current_line_item"] = NoneItem
                         /\ ~sessions'[sid].has_pending_item
                /\ (IsDictItem(pending) /\ Len(committed) = 1 /\ ProceedToReviewDecision(sid)) =>
                         /\ sessions'[sid].invoice_data["line_items"] = Append(committed, pending)
                         /\ Len(sessions'[sid].invoice_data["line_items"]) = 2
                         /\ Count("line_item", sessions'[sid].completed_steps) = 1
                         /\ sessions'[sid].current_step = "review"]_vars

(* C4 witness: two different parsed items committed by the loop, the       *)
(* session at "review" with "line_item" completed once.                    *)
C4_Witness ==
    \E sid \in SessIds :
        /\ kind = "invoice"
        /\ Live(sessions, sid)
        /\ sessions[sid].current_step = "review"
        /\ Len(sessions[sid].invoice_data["line_items"]) = 2
        /\ IsItemList(sessions[sid].invoice_data["line_items"])
        /\ sessions[sid].invoice_data["line_items"][1] # sessions[sid].invoice_data["line_items"][2]
        /\ sessions[sid].invoice_data["current_line_item"] = NoneItem
        /\ Count("line_item", sessions[sid].completed_steps) = 1
        /\ nreq = 4

(* C5 as stated: on a newly created Contact session a successful voice    *)
(* submission of "name" leaves completed_steps = ["name"] and current_step *)
(* "name", and the confirm that follows sets current_step to "email".      *)
C5_NameStepOnNewSession ==
    [][\A sid \in SessIds :
          LET s == get_session(sid)
          IN /\ (kind = "contact" /\ s = ContactWorkflowSession(now)) =>
                   \A u \in ContactUtterances("name") :
                      VoiceStepSucceeds(sid, "name", u) =>
                         /\ sessions'[sid].completed_steps = <<"name">>
                         /\ sessions'[sid].current_step = "name"
             /\ (kind = "contact" /\ s.completed_steps = <<"name">> /\ ConfirmRequest(sid)) =>
                   sessions'[sid].current_step = "email"]_vars

(* C5 amended: on a newly created Contact session that has been started    *)
(* (current_step moved from "welcome" to "name", nothing completed), a     *)
(* successful voice submission of "name" stores the name, leaves           *)
(* completed_steps = ["name"] and current_step "name"; the confirm that    *)
(* follows sets current_step to "email".                                   *)
C5_NameStepOnStartedSession ==
    [][\A sid \in SessIds :
          LET s == get_session(sid)
          IN (kind = "contact" /\ s.current_step = "name") =>
                /\ s.completed_steps = <<>> =>
                      \A u \in ContactUtterances("name") :
                         VoiceStepSucceeds(sid, "name", u) =>
                            /\ sessions'[sid].completed_steps = <<"name">>
                            /\ sessions'[sid].current_step = "name"
                            /\ sessions'[sid].contact_data["name"] = u.parsed.name
                /\ (s.completed_steps = <<"name">> /\ ConfirmRequest(sid)) =>
                      sessions'[sid].current_step = "email"]_vars

(* C5 witness: started, name collected by voice, confirmed *)
C5_Witness ==
    \E sid \in SessIds :
        /\ kind = "contact"
        /\ Live(sessions, sid)
        /\ sessions[sid].current_step = "email"
        /\ sessions[sid].completed_steps = <<"name">>
        /\ sessions[sid].contact_data["name"] = "Acme Ltd"
        /\ sessions[sid].transcripts = [k \in {"name"} |-> "acme limited"]
        /\ nreq = 3

(* C6: in every reachable state of a Contact or Invoice session,           *)
(* current_step is a step of the workflow's catalog.                       *)
C6_CurrentStepInCatalog ==
    \A sid \in SessIds :
        (kind \in {"contact", "invoice"} /\ Live(sessions, sid)) =>
            InSeq(sessions[sid].current_step, get_workflow_steps)

(* C7: in every reachable Invoice session state a pending line item is     *)
(* non-null only while current_step is "line_item".                        *)
C7_PendingOnlyAtLineItem ==
    \A sid \in SessIds :
        (kind = "invoice" /\ Live(sessions, sid)
            /\ sessions[sid].invoice_data["current_line_item"] # NoneItem) =>
            sessions[sid].current_step = "line_item"

(* C8: no request moves current_step forward past a voice-collected step   *)
(* whose completion predicate does not hold on the draft.                  *)
C8_NoSkippingOfVoiceSteps ==
    [][\A sid \in SessIds :
          (kind \in {"contact", "invoice"} /\ Live(sessions', sid)
              /\ InSeq(get_session(sid).current_step, get_workflow_steps)
              /\ InSeq(sessions'[sid].current_step, get_workflow_steps)) =>
             \A v \in VoiceCollectedSteps :
                (/\ list_index(get_workflow_steps, get_session(sid).current_step)
                       <= list_index(get_workflow_steps, v)
                 /\ list_index(get_workflow_steps, v)
                       < list_index(get_workflow_steps, sessions'[sid].current_step))
                => validate_step_data(v, sessions'[sid])]_vars

FreshSession(t) ==
    IF kind = "contact" THEN ContactWorkflowSession(t) ELSE InvoiceWorkflowSession(t)

store_step_result(s, step, u, t) ==
    IF kind = "contact" THEN contact_store_step_result(s, step, u.parsed, u.transcript, t)
    ELSE invoice_store_step_result(s, step, u.parsed, u.transcript, t)

(* Requests that only look the session up *)
LookupRequest(sid) ==
    \/ get_contact_summary(sid)
    \/ contact_get_step_prompt(sid)
    \/ get_invoice_summary(sid)
    \/ invoice_get_step_prompt(sid)

(* C9: when the stored session's updated_at is more than 30 minutes in the *)
(* past, the next access with its id works on a fresh entity (initial      *)
(* step, no completed steps, empty draft): a lookup leaves exactly the     *)
(* fresh entity stored under the id, and a voice submission stores its     *)
(* result into the fresh entity, nothing of the expired one remaining.     *)
C9_ExpiredSessionReplacedByFresh ==
    [][\A sid \in SessIds :
          (kind \in {"contact", "invoice"} /\ Live(sessions, sid)
              /\ now - sessions[sid].updated_at > SESSION_TTL) =>
             /\ get_session(sid) = FreshSession(now)
             /\ get_session(sid).current_step = "welcome"
             /\ get_session(sid).completed_steps = <<>>
             /\ Draft(get_session(sid)) = Draft(FreshSession(0))
             /\ LookupRequest(sid) => sessions'[sid] = FreshSession(now)
             /\ \A step \in VoiceCollectedSteps : \A u \in Utterances(step) :
                   VoiceStepSucceeds(sid, step, u) =>
                      sessions'[sid] = store_step_result(FreshSession(now), step, u, now)]_vars

(* C9 witness: after the clock passed the 30 minutes, an access left the   *)
(* fresh entity under the id.                                              *)
C9_Witness ==
    \E sid \in SessIds :
        /\ kind = "contact"
        /\ now = 31
        /\ nreq = 3
        /\ resp = "ok"
        /\ sessions[sid] = ContactWorkflowSession(31)

(* C10: a successful voice submission for a step that is already in        *)
(* completed_steps overwrites the step's transcript, parsed result and     *)
(* draft fields with the new values and leaves completed_steps unchanged.  *)
C10_ResubmitKeepsCompletedSteps ==
    [][\A sid \in SessIds, step \in VoiceCollectedSteps :
          \A u \in Utterances(step) :
             (kind \in {"contact", "invoice"}
                 /\ resp' = "ok"
                 /\ InSeq(step, get_session(sid).completed_steps)
                 /\ VoiceStepSucceeds(sid, step, u)) =>
                /\ sessions'[sid].completed_steps = get_session(sid).completed_steps
                /\ sessions'[sid].transcripts[step] = u.transcript
                /\ sessions'[sid].parsed_results[step] = u.parsed
                /\ \A k \in DOMAIN ParsedData(step, u) :
                      Draft(sessions'[sid])[k] = ParsedData(step, u)[k]]_vars

(* C10 witness: the name was submitted twice, the second value is stored *)
C10_Witness ==
    \E sid \in SessIds :
        /\ kind = "contact"
        /\ nreq = 2
        /\ resp = "ok"
        /\ sessions[sid].completed_steps = <<"name">>
        /\ sessions[sid].contact_data["name"] = "Bob Smith"
        /\ sessions[sid].transcripts["name"] = "bob smith"

(* The operations that mutate a session: a stored voice result, a confirm, *)
(* a successful navigation, a line item committed or cleared, a field      *)
(* edit, a reset                                                           *)
MutatingOperation(sid) ==
    \/ \E step \in VoiceCollectedSteps : \E u \in Utterances(step) : VoiceStepSucceeds(sid, step, u)
    \/ ConfirmRequest(sid)
    \/ \E step \in StepInputs : GoToStepSucceeds(sid, step)
    \/ AddAnotherDecision(sid)
    \/ ProceedToReviewDecision(sid)
    \/ \E item_index \in 0..1 : clear_line_item(sid, item_index)
    \/ clear_all_line_items(sid)
    \/ \E v \in FieldValues :
          \/ \E f \in ContactFieldNames : update_contact_field(sid, f, v)
          \/ \E f \in InvoiceFieldNames : update_invoice_field(sid, f, v)
    \/ contact_reset_workflow(sid)
    \/ invoice_reset_workflow(sid)

(* C12: every operation that mutates a session (a stored voice result, a   *)
(* confirm, a successful navigation, a line item committed or cleared, a   *)
(* field edit, a reset) sets updated_at to the time of the operation.      *)
C12_MutationTouchesUpdatedAt ==
    [][\A sid \in SessIds :
          (/\ kind \in {"contact", "invoice"}
           /\ resp' = "ok"
           /\ Live(sessions', sid)
           /\ sessions'[sid] # get_session(sid)
           /\ MutatingOperation(sid))
          => sessions'[sid].updated_at = now]_vars

(* C13: a lookup with a known id whose session has not expired works on    *)
(* the stored entity itself and leaves it as it is, updated_at included.   *)
C13_LookupLeavesSessionUnchanged ==
    [][\A sid \in SessIds :
          (kind \in {"contact", "invoice"} /\ Live(sessions, sid)
              /\ ~Expired(sessions[sid], now)) =>
             /\ get_session(sid) = sessions[sid]
             /\ LookupRequest(sid) => sessions'[sid] = sessions[sid]]_vars

(* C13 witness: half an hour after its last mutation the session was       *)
(* looked up and is still stored with its old updated_at.                  *)
C13_Witness ==
    \E sid \in SessIds :
        /\ kind = "contact"
        /\ now = SESSION_TTL
        /\ nreq = 4
        /\ resp = "ok"
        /\ sessions[sid].updated_at = 0
        /\ sessions[sid].current_step = "name"
        /\ sessions[sid].completed_steps = <<"name">>

(* Requests whose handler calls advance_step *)
AdvanceRequest(sid) ==
    \/ start_invoice_workflow(sid)
    \/ \E step \in InvoiceStepInputs \cup {None} : invoice_confirm_step(sid, step)

advance_step(s, t) ==
    IF kind = "invoice" THEN invoice_advance_step(s, t)
    ELSE base_advance_step(get_workflow_steps, s, t)

(* A request served by calling advance_step on the session *)
AdvanceCalled(sid) ==
    /\ resp' = "ok"
    /\ \/ /\ get_session(sid).current_step = "welcome"
          /\ start_contact_workflow(sid) \/ start_invoice_workflow(sid)
       \/ ConfirmRequest(sid)
       \/ \E step \in BaseStepInputs : complete_step(sid, step)

(* The step after step in the catalog; the last step is followed by none *)
IsLastStep(step) == list_index(get_workflow_steps, step) = Len(get_workflow_steps) - 1

StepAfter(step) == get_workflow_steps[list_index(get_workflow_steps, step) + 2]

(* C15: when advance is called on a non-terminal catalog step with no line *)
(* item pending, current_step becomes exactly the next step of the catalog *)
(* (and updated_at the time of the call); on the last step of the catalog  *)
(* it changes nothing.                                                     *)
C15_AdvanceMovesToNextStep ==
    [][\A sid \in SessIds :
          LET s == get_session(sid)
          IN (/\ kind = "base" => Live(sessions, sid)
              /\ InSeq(s.current_step, get_workflow_steps)
              /\ kind = "invoice" => s.invoice_data["current_line_item"] = NoneItem)
             => /\ (~IsLastStep(s.current_step) /\ AdvanceCalled(sid)) =>
                     /\ advance_step(s, now) = [s EXCEPT !.current_step = StepAfter(s.current_step),
                                                        !.updated_at = now]
                     /\ sessions'[sid].current_step = StepAfter(s.current_step)
                /\ (IsLastStep(s.current_step) /\ AdvanceCalled(sid)) =>
                     /\ advance_step(s, now) = s
                     /\ sessions'[sid].current_step = s.current_step]_vars

(* A go-to-step request *)
GoToRequest(session_id, step) ==
    \/ \E is_mobile \in BOOLEAN : contact_go_to_step(session_id, step, is_mobile)
    \/ \E is_mobile \in BOOLEAN : invoice_go_to_step(session_id, step, is_mobile)
    \/ session_id \in SessIds /\ navigate_to_step(session_id, step)

(* The answers by which a go-to-step request is rejected: the session id   *)
(* is refused, the target is not a step of the catalog, the target is not  *)
(* accessible (400 for both on the base router), the session is unknown    *)
GoToRejections == {"SESSION_EXPIRED", "INVALID_STEP", "STEP_NOT_ACCESSIBLE", "400", "404"}

(* C16: every rejected go-to-step request leaves current_step,             *)
(* completed_steps and the draft of the session unchanged, and a request   *)
(* whose target is not in the catalog is always rejected, with the         *)
(* invalid-step error of the workflow.                                     *)
C16_RejectedGoToChangesNothing ==
    [][\A step \in StepInputs :
          /\ \A session_id \in SessIds \cup {BadSessionId} :
                (resp' \in GoToRejections /\ GoToRequest(session_id, step)) =>
                   IF kind = "base" \/ session_id = BadSessionId
                   THEN UNCHANGED sessions
                   ELSE /\ sessions'[session_id].current_step = get_session(session_id).current_step
                        /\ sessions'[session_id].completed_steps
                              = get_session(session_id).completed_steps
                        /\ Draft(sessions'[session_id]) = Draft(get_session(session_id))
          /\ \A sid \in SessIds :
                (~InSeq(step, get_workflow_steps) /\ GoToRequest(sid, step)) =>
                   resp' = IF kind # "base" THEN "INVALID_STEP"
                           ELSE IF Live(sessions, sid) THEN "400" ELSE "404"]_vars

(* C16 witness: a go-to-step request for a catalog step that is not yet    *)
(* accessible was rejected and the session with its collected name stayed  *)
C16_Witness ==
    \E sid \in SessIds :
        /\ kind = "contact"
        /\ resp = "STEP_NOT_ACCESSIBLE"
        /\ sessions[sid].current_step = "name"
        /\ sessions[sid].completed_steps = <<"name">>
        /\ sessions[sid].contact_data["name"] = "Acme Ltd"

(* C17: a successful parse of a "line_item" voice step stores the result   *)
(* as the pending item and sets the pending flag; the committed line-item  *)
(* list, completed_steps and current_step are as they were.                *)
C17_LineItemParseOnlyPends ==
    [][\A sid \in SessIds : \A u \in InvoiceUtterances("line_item") :
          (kind = "invoice" /\ resp' = "ok" /\ VoiceStepSucceeds(sid, "line_item", u)) =>
             /\ sessions'[sid].invoice_data["current_line_item"]
                   = parse_invoice_data("line_item", u.parsed)["current_line_item"]
             /\ sessions'[sid].has_pending_item
             /\ sessions'[sid].invoice_data["line_items"] = get_session(sid).invoice_data["line_items"]
             /\ sessions'[sid].line_item_count = get_session(sid).line_item_count
             /\ sessions'[sid].completed_steps = get_session(sid).completed_steps
             /\ sessions'[sid].current_step = get_session(sid).current_step]_vars

(* C17 witness: nine items committed, a tenth parsed and pending, the      *)
(* "line_item" step not completed                                          *)
C17_Witness ==
    \E sid \in SessIds :
        /\ kind = "invoice"
        /\ nreq = 1
        /\ resp = "ok"
        /\ sessions[sid].has_pending_item
        /\ sessions[sid].invoice_data["current_line_item"].description = "Licence"
        /\ Len(sessions[sid].invoice_data["line_items"]) = max_line_items - 1
        /\ ~InSeq("line_item", sessions[sid].completed_steps)

(* A voice submission of step that fails in the pipeline with outcome *)
VoiceStepFails(sid, step, outcome) ==
    \/ process_contact_step(sid, step, TRUE, TRUE, TRUE, outcome, NoUtterance)
    \/ process_invoice_step(sid, step, TRUE, TRUE, TRUE, outcome, NoUtterance)

(* C18: when a voice step submission fails at any stage (transcription,    *)
(* extraction, sanitizers, the upstream service), completed_steps, the     *)
(* draft with its committed line-item list, and the pending flag are       *)
(* exactly those of the session before the submission.                     *)
C18_FailedVoiceStepChangesNothing ==
    [][\A sid \in SessIds, step \in VoiceCollectedSteps, outcome \in VoiceOutcomes \ {"ok"} :
          (kind \in {"contact", "invoice"} /\ resp' = VoiceErrorCode(outcome)
              /\ VoiceStepFails(sid, step, outcome)) =>
             /\ sessions'[sid].completed_steps = get_session(sid).completed_steps
             /\ Draft(sessions'[sid]) = Draft(get_session(sid))
             /\ sessions'[sid].workflow_data = get_session(sid).workflow_data
             /\ kind = "invoice" =>
                   /\ sessions'[sid].invoice_data["line_items"]
                         = get_session(sid).invoice_data["line_items"]
                   /\ sessions'[sid].has_pending_item = get_session(sid).has_pending_item]_vars

(* C18 witness: a line_item submission failed validation on a session with *)
(* nine committed items and none pending; the nine items are still there.  *)
C18_Witness ==
    \E sid \in SessIds :
        /\ kind = "invoice"
        /\ nreq = 1
        /\ resp = "VALIDATION_ERROR"
        /\ Len(sessions[sid].invoice_data["line_items"]) = max_line_items - 1
        /\ sessions[sid].invoice_data["current_line_item"] = NoneItem
        /\ ~sessions[sid].has_pending_item
        /\ sessions[sid].completed_steps = <<"contact_name", "due_date">>

(* C19: every validation failure of a voice step is answered with an error *)
(* that names the offending field.                                         *)
C19_ValidationErrorNamesField ==
    resp = "VALIDATION_ERROR" => resp_field # None

(* C20: the current_step of an Invoice session moves from "line_item" to   *)
(* "review" only by an explicit proceed decision, and whenever it has so   *)
(* moved "line_item" is in completed_steps.                                *)
C20_ReviewOnlyByProceedDecision ==
    [][\A sid \in SessIds :
          (/\ kind = "invoice"
           /\ Live(sessions', sid)
           /\ sessions'[sid].current_step = "review"
           /\ get_session(sid).current_step = "line_item")
          => /\ ProceedToReviewDecision(sid)
             /\ InSeq("line_item", sessions'[sid].completed_steps)]_vars

(* The same request made by the other client kind: the Accept header is   *)
(* the only difference                                                     *)
ByOtherClient(req) == [req EXCEPT !.is_mobile = ~req.is_mobile]

(* A voice submission handled on this step *)
VoiceStepRequest(req) ==
    \/ process_contact_step(req.session_id, req.step, req.is_mobile, req.csrf_ok,
                            req.has_key, req.outcome, req.utt)
    \/ process_invoice_step(req.session_id, req.step, req.is_mobile, req.csrf_ok,
                            req.has_key, req.outcome, req.utt)

(* A go-to-step request of one client kind handled on this step *)
GoToRequestBy(session_id, step, is_mobile) ==
    \/ contact_go_to_step(session_id, step, is_mobile)
    \/ invoice_go_to_step(session_id, step, is_mobile)

(* C21: the sessions after a request are the same whether the request was  *)
(* made by a Machine client or by an Interactive client: a voice           *)
(* submission handled for one client kind is handled the same way for the  *)
(* other, and a go-to-step request changes the session in the same way     *)
(* for both, only the Interactive answer may be the failed rendering.      *)
C21_ClientKindDoesNotChangeState ==
    [][/\ \A req \in ContactVoiceRequests \cup InvoiceVoiceRequests :
             VoiceStepRequest(req) => VoiceStepRequest(ByOtherClient(req))
       /\ \A sid \in SessIds :
             GoToRequestBy(sid, "review", FALSE) =>
                \/ GoToRequestBy(sid, "review", TRUE)
                \/ /\ resp' = "NAVIGATION_ERROR"
                   /\ sessions' = [sessions EXCEPT
                                      ![sid] = [get_session(sid) EXCEPT !.current_step = "review"]]]_vars

---------------------------------------------------------------------------
(* Credentials and collaborators: session.py, common/token_auth.py,        *)
(* auth.py, routes.py, the submission routes and the voice step handlers.  *)
(* Values kept in cookies and returned by these operations are records     *)
(* tagged with their Python type.  The clock is in minutes.                *)

(* Bounds of this exploration: the operations of one run and the minutes   *)
(* the clock runs                                                          *)
MaxServiceSteps == 3
MaxServiceTime == 1501

(* Program constants: seconds a signed value stays valid, hours a bearer   *)
(* token stays valid, bytes of the largest audio payload                   *)
max_age == 3600
JWT_EXPIRY_HOURS == 24
MAX_AUDIO_SIZE == 10485760    \* 10 * 1024 * 1024

SECRET_KEY == "session_secret_key"

PyNone == [py |-> "None"]
StrValue(v) == [py |-> "str", v |-> v]
EmptyStr == StrValue("")
PyTruthy(v) == v # PyNone /\ v # EmptyStr /\ v # [py |-> "dict"]

(* datetime objects and their isoformat() strings *)
DateTime(t) == [py |-> "datetime", t |-> t]
IsoFormat(t) == [py |-> "str", iso |-> t]

(* The token data of the accounting service, XeroTokenResponse.model_dump() *)
XeroToken(access_token, refresh_token) ==
    [py |-> "dict", access_token |-> access_token, refresh_token |-> refresh_token]

MobileIds == {"m1", "m2"}
CookieKeys == {"xero_token", "openai_api_key", "openai_session", "oauth_session"}
OAuthStates == {"st1", "st2"}
ApiKeys == {"sk-web", "sk-mobile"}

(* session.py: DateTimeAwareJSONEncoder, datetime values leave as strings *)
JsonEncode(data) ==
    IF data.py = "dict" /\ "oauth_session" \in DOMAIN data
    THEN [data EXCEPT !.oauth_session.created_at = IsoFormat(@.t)]
    ELSE data

(* session.py: parse_datetime_in_dict, "created_at" strings come back as   *)
(* datetime objects                                                        *)
parse_datetime_in_dict(data) ==
    IF data.py = "dict" /\ "oauth_session" \in DOMAIN data
    THEN [data EXCEPT !.oauth_session.created_at = DateTime(@.iso)]
    ELSE data

(* itsdangerous URLSafeTimedSerializer: the signature covers the payload   *)
(* and the timestamp under the key                                         *)
Signature(key, payload, timestamp) == <<key, payload, timestamp>>

dumps(data, t) ==
    [py |-> "signed", payload |-> JsonEncode(data), timestamp |-> t,
     signature |-> Signature(SECRET_KEY, JsonEncode(data), t)]

(* loads(signed, max_age): the exception it raises, or "no" *)
loads_raises(signed, t) ==
    IF signed.signature # Signature(SECRET_KEY, signed.payload, signed.timestamp)
    THEN "BadSignature"
    ELSE IF (t - signed.timestamp) * 60 > max_age THEN "SignatureExpired"
    ELSE "no"

(* SecureSessionManager.get_session_data: the value returned and the       *)
(* cookie session left behind.  Variant: the failing value stays stored.   *)
get_session_data_keeping(session, key, t) ==
    IF session[key] = PyNone THEN [value |-> PyNone, session |-> session]
    ELSE IF loads_raises(session[key], t) # "no" THEN [value |-> PyNone, session |-> session]
    ELSE [value |-> parse_datetime_in_dict(session[key].payload), session |-> session]

get_session_data(session, key, t) ==
    IF session[key] = PyNone THEN [value |-> PyNone, session |-> session]
    ELSE IF loads_raises(session[key], t) # "no"
         THEN [value |-> PyNone, session |-> [session EXCEPT ![key] = PyNone]]
    ELSE [value |-> parse_datetime_in_dict(session[key].payload), session |-> session]

set_session_data(session, key, data, t) == [session EXCEPT ![key] = dumps(data, t)]

clear_session_data(session, key) == [session EXCEPT ![key] = PyNone]

(* store_api_key: clear, then store signed *)
store_api_key(session, api_key, t) ==
    set_session_data(clear_session_data(session, "openai_api_key"), "openai_api_key",
                     StrValue(api_key), t)

(* Variant: an emptied dict leaves the stored value in place *)
session_context_exit_keeping(session, key, data, t) ==
    IF data # [py |-> "dict"] THEN set_session_data(session, key, data, t)
    ELSE session

(* oauth_session_context, openai_session_context on exit: a non-empty      *)
(* dict is signed and stored again, an empty one clears the key            *)
session_context_exit(session, key, data, t) ==
    IF data # [py |-> "dict"] THEN set_session_data(session, key, data, t)
    ELSE clear_session_data(session, key)

(* common/token_auth.py: MobileAuthManager *)
create_token(session_id, xero_connected, openai_valid, t) ==
    [py |-> "jwt", session_id |-> session_id, xero_connected |-> xero_connected,
     openai_valid |-> openai_valid, exp |-> t + JWT_EXPIRY_HOURS * 60, iat |-> t,
     key |-> SECRET_KEY]

(* jwt.decode raises InvalidTokenError on a bad signature and              *)
(* ExpiredSignatureError once exp <= now: None either way                  *)
validate_token(token, t) ==
    IF token.key # SECRET_KEY THEN PyNone
    ELSE IF token.exp <= t THEN PyNone
    ELSE [py |-> "TokenPayload", session_id |-> token.session_id,
          xero_connected |-> token.xero_connected, openai_valid |-> token.openai_valid]

MobileSession(xero_token, openai_api_key, t) ==
    [py |-> "MobileSession", xero_token |-> xero_token, openai_api_key |-> openai_api_key,
     created_at |-> t, last_accessed |-> t]

create_mobile_session(store, session_id, xero_token, openai_api_key, t) ==
    [store EXCEPT ![session_id] = MobileSession(xero_token, openai_api_key, t)]

(* get_mobile_session touches last_accessed of the session it finds *)
get_mobile_session(store, session_id, t) ==
    IF store[session_id] = PyNone THEN [session |-> PyNone, store |-> store]
    ELSE [session |-> [store[session_id] EXCEPT !.last_accessed = t],
          store |-> [store EXCEPT ![session_id].last_accessed = t]]

update_mobile_session(store, session_id, openai_api_key, t) ==
    IF store[session_id] = PyNone THEN store
    ELSE [store EXCEPT ![session_id].openai_api_key = openai_api_key,
                       ![session_id].last_accessed = t]

(* A request: its Authorization header.  The cookie session it carries is  *)
(* the cookie variable.                                                    *)
NoAuthorization == [scheme |-> "", credentials |-> EmptyStr]
Bearer(token) == [scheme |-> "Bearer ", credentials |-> token]

(* A token signed with some other key *)
ForgedToken(session_id) ==
    [create_token(session_id, TRUE, TRUE, 0) EXCEPT !.key = "another_key"]

(* extract_bearer_token: what follows "Bearer ", None for any other header *)
extract_bearer_token(request) ==
    IF request.authorization.scheme = "Bearer " THEN request.authorization.credentials
    ELSE PyNone

(* get_xero_token, get_openai_api_key: the credential resolved for a       *)
(* request, with the mobile sessions and the cookie session left behind.   *)
(* Variant: a bearer token that resolves to nothing falls back to the      *)
(* cookie session.                                                         *)
get_xero_token_falling_back(request, store, session, t) ==
    LET token == extract_bearer_token(request)
        payload == validate_token(token, t)
        got == get_mobile_session(store, payload.session_id, t)
        web == get_session_data(session, "xero_token", t)
    IN IF PyTruthy(token) /\ payload # PyNone /\ got.session # PyNone
             /\ PyTruthy(got.session.xero_token)
       THEN [value |-> got.session.xero_token, store |-> got.store, session |-> session]
       ELSE [value |-> web.value, store |-> store, session |-> web.session]

get_xero_token(request, store, session, t) ==
    LET token == extract_bearer_token(request)
        payload == validate_token(token, t)
        got == get_mobile_session(store, payload.session_id, t)
        web == get_session_data(session, "xero_token", t)
    IN IF PyTruthy(token)
       THEN IF payload # PyNone
            THEN [value |-> IF got.session # PyNone /\ PyTruthy(got.session.xero_token)
                            THEN got.session.xero_token ELSE PyNone,
                  store |-> got.store, session |-> session]
            ELSE [value |-> PyNone, store |-> store, session |-> session]
       ELSE [value |-> web.value, store |-> store, session |-> web.session]

get_openai_api_key(request, store, session, t) ==
    LET token == extract_bearer_token(request)
        payload == validate_token(token, t)
        got == get_mobile_session(store, payload.session_id, t)
        web == get_session_data(session, "openai_api_key", t)
    IN IF PyTruthy(token)
       THEN IF payload # PyNone
            THEN [value |-> IF got.session # PyNone /\ PyTruthy(got.session.openai_api_key)
                            THEN got.session.openai_api_key ELSE PyNone,
                  store |-> got.store, session |-> session]
            ELSE [value |-> PyNone, store |-> store, session |-> session]
       ELSE [value |-> web.value, store |-> store, session |-> web.session]

(* auth.py: XeroOAuth2 *)
EmptyPyDict == [py |-> "dict"]

(* create_authorization_url stores state and verifier in the session data *)
create_authorization_url(session_data, state, t) ==
    [py |-> "dict", is_mobile |-> session_data.is_mobile,
     oauth_session |-> [state |-> state, code_verifier |-> <<"verifier", state>>,
                        created_at |-> DateTime(t)]]

(* Answers of the token endpoint *)
TokenAnswers == {"200", "400", "401", "500"}

TokenRequest(code, oauth_session) ==
    [to |-> "token_endpoint", grant_type |-> "authorization_code", code |-> code,
     code_verifier |-> oauth_session.code_verifier]

(* exchange_code_for_token: the exception it raises or "no", the calls it  *)
(* made and the token it returns.  Variant: the state is not compared.     *)
exchange_code_for_token_any_state(code, state, session_data, answer, token) ==
    LET oauth_session_data == IF "oauth_session" \in DOMAIN session_data
                              THEN session_data.oauth_session ELSE PyNone
    IN IF ~PyTruthy(oauth_session_data)
       THEN [raises |-> "No OAuth session data found", calls |-> <<>>, value |-> PyNone]
       ELSE [raises |-> IF answer = "200" THEN "no" ELSE answer,
             calls |-> <<TokenRequest(code, oauth_session_data)>>,
             value |-> IF answer = "200" THEN token ELSE PyNone]

exchange_code_for_token(code, state, session_data, answer, token) ==
    LET oauth_session_data == IF "oauth_session" \in DOMAIN session_data
                              THEN session_data.oauth_session ELSE PyNone
    IN IF ~PyTruthy(oauth_session_data)
       THEN [raises |-> "No OAuth session data found", calls |-> <<>>, value |-> PyNone]
       ELSE IF state # oauth_session_data.state
       THEN [raises |-> "Invalid state parameter", calls |-> <<>>, value |-> PyNone]
       ELSE [raises |-> IF answer = "200" THEN "no" ELSE answer,
             calls |-> <<TokenRequest(code, oauth_session_data)>>,
             value |-> IF answer = "200" THEN token ELSE PyNone]

(* One operation of this part: counted; the clock stays *)
ServiceStep ==
    /\ kind = "service"
    /\ nreq < MaxServiceSteps
    /\ nreq' = nreq + 1
    /\ UNCHANGED <<kind, now, inflight, cache>>

WorkflowUntouched == UNCHANGED <<sessions, resp, resp_field>>

Redirect(url) == [py |-> "redirect", url |-> url]
JsonResponse(code) == [py |-> "json", code |-> code]

(* uuid.uuid4(): an id no mobile session and no token has used *)
FreshMobileIds ==
    {m \in MobileIds : mobile_sessions[m] = PyNone /\ \A tok \in issued : tok.session_id # m}

(* routes.py: GET /auth/start *)
start_auth(is_mobile, state) ==
    /\ ServiceStep
    /\ LET got == get_session_data(cookie, "oauth_session", now)
           oauth_data == create_authorization_url([py |-> "dict", is_mobile |-> is_mobile],
                                                  state, now)
       IN cookie' = session_context_exit(got.session, "oauth_session", oauth_data, now)
    /\ calls' = <<>>
    /\ ret' = Redirect("authorize")
    /\ UNCHANGED <<mobile_sessions, issued>>
    /\ WorkflowUntouched

(* routes.py: GET /auth/callback *)
auth_callback(code, state, error, answer, token) ==
    /\ ServiceStep
    /\ WorkflowUntouched
    /\ IF error # None
       THEN /\ ret' = Redirect("/?error=auth_denied")
            /\ calls' = <<>>
            /\ UNCHANGED <<cookie, mobile_sessions, issued>>
       ELSE IF code = None \/ state = None
       THEN /\ ret' = Redirect("/?error=missing_params")
            /\ calls' = <<>>
            /\ UNCHANGED <<cookie, mobile_sessions, issued>>
       ELSE LET got == get_session_data(cookie, "oauth_session", now)
                oauth_data == IF got.value = PyNone THEN EmptyPyDict ELSE got.value
                x == exchange_code_for_token(code, state, oauth_data, answer, token)
            IN /\ calls' = x.calls
               /\ IF x.raises # "no"
                  THEN /\ cookie' = session_context_exit(got.session, "oauth_session",
                                                         oauth_data, now)
                       /\ ret' = Redirect("/?error=callback_error")
                       /\ UNCHANGED <<mobile_sessions, issued>>
                  ELSE /\ cookie' = session_context_exit(
                                        set_session_data(got.session, "xero_token", x.value, now),
                                        "oauth_session", EmptyPyDict, now)
                       /\ IF oauth_data.is_mobile
                          THEN \E m \in FreshMobileIds :
                                  /\ mobile_sessions' = create_mobile_session(
                                                            mobile_sessions, m, x.value, PyNone, now)
                                  /\ issued' = issued \cup {create_token(m, TRUE, FALSE, now)}
                                  /\ ret' = Redirect("oauth/callback?success=true&token=")
                          ELSE /\ ret' = Redirect("/?success=xero_connected")
                               /\ UNCHANGED <<mobile_sessions, issued>>

(* routes.py: POST /auth/validate-openai *)
validate_openai_key(csrf_ok, api_key, is_valid) ==
    /\ ServiceStep
    /\ WorkflowUntouched
    /\ UNCHANGED <<mobile_sessions, issued>>
    /\ IF ~csrf_ok
       THEN /\ ret' = JsonResponse("403")
            /\ calls' = <<>>
            /\ UNCHANGED cookie
       ELSE /\ calls' = <<[to |-> "openai_models_list", api_key |-> api_key]>>
            /\ IF is_valid
               THEN LET stored == store_api_key(cookie, api_key, now)
                        got == get_session_data(stored, "openai_session", now)
                    IN /\ cookie' = session_context_exit(
                                        got.session, "openai_session",
                                        [py |-> "dict", is_valid |-> TRUE], now)
                       /\ ret' = JsonResponse("200")
               ELSE /\ cookie' = clear_session_data(cookie, "openai_session")
                    /\ ret' = JsonResponse("400")

(* routes.py: POST /auth/disconnect *)
disconnect_auth ==
    /\ ServiceStep
    /\ WorkflowUntouched
    /\ cookie' = clear_session_data(clear_session_data(cookie, "xero_token"), "oauth_session")
    /\ calls' = <<>>
    /\ ret' = Redirect("/")
    /\ UNCHANGED <<mobile_sessions, issued>>

(* routes.py: POST /auth/clear-openai *)
clear_openai_session ==
    /\ ServiceStep
    /\ WorkflowUntouched
    /\ cookie' = clear_session_data(cookie, "openai_session")
    /\ calls' = <<>>
    /\ ret' = Redirect("/")
    /\ UNCHANGED <<mobile_sessions, issued>>

(* bool(openai_data and openai_data.get("is_valid")) *)
is_valid_flag(openai_data) ==
    /\ openai_data # PyNone
    /\ "is_valid" \in DOMAIN openai_data
    /\ openai_data.is_valid

(* contact_workflow/routes/auth_utils.py: check_auth_status, the pair      *)
(* (is_authenticated, error_message) with the cookie session left behind   *)
check_auth_status(request, session, t) ==
    LET token == extract_bearer_token(request)
        payload == validate_token(token, t)
        xero == get_session_data(session, "xero_token", t)
        openai == get_session_data(xero.session, "openai_session", t)
    IN IF PyTruthy(token)
       THEN [session |-> session,
             result |-> IF payload # PyNone
                        THEN IF ~payload.xero_connected
                             THEN <<FALSE, "Xero authentication required">>
                             ELSE IF ~payload.openai_valid
                             THEN <<FALSE, "OpenAI API key required">>
                             ELSE <<TRUE, None>>
                        ELSE <<FALSE, "Invalid or expired token">>]
       ELSE [session |-> openai.session,
             result |-> IF xero.value = PyNone
                        THEN <<FALSE, "Xero authentication required">>
                        ELSE IF ~is_valid_flag(openai.value)
                        THEN <<FALSE, "OpenAI API key required">>
                        ELSE <<TRUE, None>>]

(* routes.py: POST /auth/mobile/token.  The openai_session data holds no   *)
(* "api_key", so the mobile session is created without a key.              *)
get_mobile_token ==
    /\ ServiceStep
    /\ WorkflowUntouched
    /\ calls' = <<>>
    /\ LET xero == get_session_data(cookie, "xero_token", now)
           openai == get_session_data(xero.session, "openai_session", now)
           xero_connected == xero.value # PyNone
           openai_valid == is_valid_flag(openai.value)
       IN /\ cookie' = openai.session
          /\ IF ~xero_connected /\ ~openai_valid
             THEN /\ ret' = JsonResponse("AUTH_REQUIRED")
                  /\ UNCHANGED <<mobile_sessions, issued>>
             ELSE \E m \in FreshMobileIds :
                     /\ mobile_sessions' = create_mobile_session(
                                               mobile_sessions, m, xero.value, PyNone, now)
                     /\ issued' = issued \cup {create_token(m, xero_connected,
                                                              openai_valid, now)}
                     /\ ret' = JsonResponse("200")

(* routes.py: POST /auth/mobile/validate-openai *)
mobile_validate_openai(request, api_key, is_valid) ==
    /\ ServiceStep
    /\ WorkflowUntouched
    /\ UNCHANGED cookie
    /\ LET token == extract_bearer_token(request)
           payload == validate_token(token, now)
           got == get_mobile_session(mobile_sessions, payload.session_id, now)
       IN IF ~PyTruthy(token)
          THEN /\ ret' = JsonResponse("AUTH_REQUIRED")
               /\ calls' = <<>>
               /\ UNCHANGED <<mobile_sessions, issued>>
          ELSE IF payload = PyNone
          THEN /\ ret' = JsonResponse("INVALID_TOKEN")
               /\ calls' = <<>>
               /\ UNCHANGED <<mobile_sessions, issued>>
          ELSE /\ calls' = <<[to |-> "openai_models_list", api_key |-> api_key]>>
               /\ IF is_valid
                  THEN /\ mobile_sessions' =
                             IF got.session # PyNone
                             THEN update_mobile_session(got.store, payload.session_id,
                                                        StrValue(api_key), now)
                             ELSE create_mobile_session(mobile_sessions, payload.session_id,
                                                        PyNone, StrValue(api_key), now)
                       /\ issued' = issued \cup {create_token(payload.session_id,
                                                                payload.xero_connected,
                                                                TRUE, now)}
                       /\ ret' = JsonResponse("200")
                  ELSE /\ ret' = JsonResponse("OPENAI_NOT_VALID")
                       /\ UNCHANGED <<mobile_sessions, issued>>

(* A handler resolves the credentials of its request *)
resolve_xero_token(request) ==
    /\ ServiceStep
    /\ WorkflowUntouched
    /\ LET got == get_xero_token(request, mobile_sessions, cookie, now)
       IN /\ ret' = [py |-> "resolved", want |-> "xero_token", request |-> request,
                     value |-> got.value]
          /\ mobile_sessions' = got.store
          /\ cookie' = got.session
    /\ calls' = <<>>
    /\ UNCHANGED issued

resolve_openai_api_key(request) ==
    /\ ServiceStep
    /\ WorkflowUntouched
    /\ LET got == get_openai_api_key(request, mobile_sessions, cookie, now)
       IN /\ ret' = [py |-> "resolved", want |-> "openai_api_key", request |-> request,
                     value |-> got.value]
          /\ mobile_sessions' = got.store
          /\ cookie' = got.session
    /\ calls' = <<>>
    /\ UNCHANGED issued

(* The process restarts: the mobile sessions are kept in memory only, the  *)
(* tokens and cookies stay with the clients                                *)
restart ==
    /\ ServiceStep
    /\ WorkflowUntouched
    /\ \E m \in MobileIds : mobile_sessions[m] # PyNone
    /\ mobile_sessions' = [m \in MobileIds |-> PyNone]
    /\ calls' = <<>>
    /\ ret' = PyNone
    /\ UNCHANGED <<cookie, issued>>

(* The cookie session of a request carries, under key, a value that the    *)
(* serializer did not sign                                                 *)
unsigned_session_value(key) ==
    /\ ServiceStep
    /\ WorkflowUntouched
    /\ cookie[key] # PyNone
    /\ cookie' = [cookie EXCEPT ![key].signature =
                     Signature("another_key", cookie[key].payload, cookie[key].timestamp)]
    /\ calls' = <<>>
    /\ ret' = PyNone
    /\ UNCHANGED <<mobile_sessions, issued>>

(* Time passes: up to the life of a signed value, just beyond it, and the  *)
(* life of a bearer token                                                  *)
ServiceTickMinutes == {max_age \div 60, max_age \div 60 + 1, JWT_EXPIRY_HOURS * 60}

ServiceTick ==
    /\ kind = "service"
    /\ nreq < MaxServiceSteps
    /\ \E d \in ServiceTickMinutes :
          /\ now + d <= MaxServiceTime
          /\ now' = now + d
    /\ nreq' = nreq + 1
    /\ UNCHANGED <<kind, sessions, resp, resp_field, service_vars, inflight, cache>>

(* The access tokens the accounting service can be asked with, and what a  *)
(* refresh can return                                                      *)
AccessTokens == {"at1", "at2"}
IssuedXeroTokens == {XeroToken("at1", None), XeroToken("at1", "rt1")}
RefreshAnswers == {PyNone, XeroToken("at2", "rt2")}

TenantLookup(access_token) == [to |-> "connections", access_token |-> access_token]
RefreshRequest(refresh_token) ==
    [to |-> "token_endpoint", grant_type |-> "refresh_token", refresh_token |-> refresh_token]
CreateRecord(access_token) == [to |-> "create_record", access_token |-> access_token]

(* contact_workflow/routes/submission_routes.py: POST /contact/submit-to-xero, *)
(* with the credential it resolves and the calls it makes.  accepted: the  *)
(* access tokens the tenant lookup succeeds with; refreshed: the answer of *)
(* the refresh; created: whether the record creation succeeds.  The name   *)
(* session_manager is not bound in the module: storing the refreshed       *)
(* credential raises NameError, answered by the handler's last except.     *)
submit_to_xero(session_id, request, accepted, refreshed, created) ==
    /\ ServiceStep
    /\ UNCHANGED issued
    /\ ret' = PyNone
    /\ IF ~validate_session_id(session_id)
       THEN /\ Reject("SESSION_EXPIRED")
            /\ calls' = <<>>
            /\ UNCHANGED <<cookie, mobile_sessions>>
       ELSE LET s0 == get_contact_session(sessions, session_id, now)
                cred == get_xero_token(request, mobile_sessions, cookie, now)
                access_token == cred.value.access_token
                refresh_token == cred.value.refresh_token
            IN IF ~to_contact_create_ok(s0)
               THEN /\ Store(session_id, s0, "INVALID_DATA")
                    /\ calls' = <<>>
                    /\ UNCHANGED <<cookie, mobile_sessions>>
               ELSE /\ cookie' = cred.session
                    /\ mobile_sessions' = cred.store
                    /\ IF ~PyTruthy(cred.value)
                       THEN /\ Store(session_id, s0, "AUTH_REQUIRED")
                            /\ calls' = <<>>
                       ELSE IF ~Truthy(access_token)
                       THEN /\ Store(session_id, s0, "INVALID_TOKEN")
                            /\ calls' = <<>>
                       ELSE IF access_token \notin accepted /\ Truthy(refresh_token)
                       THEN /\ calls' = <<TenantLookup(access_token),
                                          RefreshRequest(refresh_token)>>
                            /\ Store(session_id, s0,
                                     IF refreshed # PyNone THEN "SUBMISSION_ERROR"
                                     ELSE "AUTH_EXPIRED")
                       ELSE IF access_token \notin accepted
                       THEN /\ calls' = <<TenantLookup(access_token)>>
                            /\ Store(session_id, s0, "XERO_CONNECTION_ERROR")
                       ELSE /\ calls' = <<TenantLookup(access_token),
                                          CreateRecord(access_token)>>
                            /\ IF created
                               THEN Store(session_id, [s0 EXCEPT !.current_step = "complete"],
                                          "ok")
                               ELSE Store(session_id, s0, "CREATION_FAILED")

(* Voice pipeline: the audio of a submission, its size as the upload       *)
(* declares it (NoSize when it declares none) and the bytes read from it   *)
NoSize == -1
AudioSizes == {1, MAX_AUDIO_SIZE, MAX_AUDIO_SIZE + 1}
Audios == {[size |-> d, content |-> n] : d \in {NoSize}, n \in AudioSizes}
              \cup {[size |-> n, content |-> n] : n \in AudioSizes}

Transcription(audio) == [to |-> "transcription", bytes |-> audio.content]

Raised(error, field) == [py |-> "raised", error |-> error, field |-> field]

(* contact_workflow/step_handlers.py, invoice_workflow/step_handlers.py:   *)
(* transcribe_audio; every exception leaves as the StepValidationError of  *)
(* the field "audio".  answered: whether the collaborator returns a text.  *)
transcribe_audio(audio, answered) ==
    IF audio.size # NoSize /\ audio.size > MAX_AUDIO_SIZE
    THEN [calls |-> <<>>, value |-> Raised("StepValidationError", "audio")]
    ELSE IF audio.content > MAX_AUDIO_SIZE
    THEN [calls |-> <<>>, value |-> Raised("StepValidationError", "audio")]
    ELSE [calls |-> <<Transcription(audio)>>,
          value |-> IF answered THEN StrValue("transcript")
                    ELSE Raised("StepValidationError", "audio")]

(* workflow_base/step_processor.py: VoiceStepProcessor.transcribe_audio *)
processor_transcribe_audio(audio, answered) ==
    [calls |-> <<Transcription(audio)>>,
     value |-> IF answered THEN StrValue("transcript") ELSE Raised("ValueError", None)]

(* The voice pipelines of the program *)
VoicePipelines == {"contact", "invoice", "base"}

(* A voice submission reaches the transcription step of its pipeline *)
transcribe(pipeline, audio, answered) ==
    /\ ServiceStep
    /\ WorkflowUntouched
    /\ LET r == IF pipeline = "base" THEN processor_transcribe_audio(audio, answered)
                ELSE transcribe_audio(audio, answered)
       IN /\ calls' = r.calls
          /\ ret' = [py |-> "transcribed", pipeline |-> pipeline, audio |-> audio,
                     value |-> r.value]
    /\ UNCHANGED <<cookie, mobile_sessions, issued>>

(* A Contact session with name, email and address collected, at the        *)
(* submission step                                                         *)
SubmittableContactSession ==
    LET n == CHOOSE x \in ContactUtterances("name") : x.parsed.is_organization
        e == CHOOSE x \in ContactUtterances("email") : TRUE
        a == CHOOSE x \in ContactUtterances("address") : TRUE
        s1 == contact_store_step_result(ContactWorkflowSession(0), "name",
                                        n.parsed, n.transcript, 0)
        s2 == contact_store_step_result(s1, "email", e.parsed, e.transcript, 0)
        s3 == contact_store_step_result(s2, "address", a.parsed, a.transcript, 0)
    IN [s3 EXCEPT !.completed_steps = Append(@, "review"), !.current_step = "final_submit"]

ServiceRequests ==
    {[authorization |-> h] :
        h \in {NoAuthorization, Bearer(EmptyStr),
               [scheme |-> "Basic ", credentials |-> StrValue("dXNlcjpwdw==")],
               Bearer(ForgedToken(CHOOSE m \in MobileIds : TRUE))}
              \cup {Bearer(tok) : tok \in issued}}

(* The cookie session of a browser that has just connected to Xero *)
ConnectedCookie ==
    set_session_data([k \in CookieKeys |-> PyNone], "xero_token", XeroToken("at1", "rt1"), 0)

ServiceInit ==
    /\ kind = "service"
    /\ sessions \in {[sid \in SessIds |-> NoSession],
                     [sid \in SessIds |-> SubmittableContactSession]}
    /\ now = 0
    /\ nreq = 0
    /\ resp = "none"
    /\ resp_field = None
    /\ cookie \in {[k \in CookieKeys |-> PyNone], ConnectedCookie}
    /\ mobile_sessions = [m \in MobileIds |-> PyNone]
    /\ issued = {}
    /\ calls = <<>>
    /\ ret = PyNone
    /\ inflight = {}
    /\ cache = ModuleCaches

ServiceNext ==
    \/ \E is_mobile \in BOOLEAN, state \in OAuthStates : start_auth(is_mobile, state)
    \/ \E code \in {None, "code"}, state \in OAuthStates \cup {None},
          error \in {None, "access_denied"} :
          /\ error # None \/ code = None \/ state = None
          /\ auth_callback(code, state, error, "400", CHOOSE token \in IssuedXeroTokens : TRUE)
    \/ \E state \in OAuthStates, answer \in TokenAnswers, token \in IssuedXeroTokens :
          auth_callback("code", state, None, answer, token)
    \/ \E csrf_ok \in BOOLEAN, is_valid \in BOOLEAN : validate_openai_key(csrf_ok, "sk-web", is_valid)
    \/ disconnect_auth
    \/ clear_openai_session
    \/ get_mobile_token
    \/ \E request \in ServiceRequests, is_valid \in BOOLEAN :
          mobile_validate_openai(request, "sk-mobile", is_valid)
    \/ \E request \in ServiceRequests : resolve_xero_token(request)
    \/ \E request \in ServiceRequests : resolve_openai_api_key(request)
    \/ restart
    \/ \E key \in CookieKeys : unsigned_session_value(key)
    \/ \E r \in WithBadSessionId(ServiceRequests), accepted \in SUBSET AccessTokens,
          refreshed \in RefreshAnswers, created \in BOOLEAN :
          submit_to_xero(r[1], r[2], accepted, refreshed, created)
    \/ \E pipeline \in VoicePipelines, audio \in Audios, answered \in BOOLEAN :
          transcribe(pipeline, audio, answered)
    \/ ServiceTick

ServiceSpec == ServiceInit /\ [][ServiceNext]_vars

---------------------------------------------------------------------------
(* Properties of the credentials and collaborators *)

(* The request carries a bearer credential *)
CarriesBearer(request) ==
    request.authorization.scheme = "Bearer " /\ request.authorization.credentials # EmptyStr

(* The credential kept for the bearer token of the request in the mobile   *)
(* session the token is bound to: nothing when the token does not verify,  *)
(* has expired, or its mobile session is missing or holds none             *)
MobileCredential(request, field) ==
    LET payload == validate_token(request.authorization.credentials, now)
    IN IF payload = PyNone THEN PyNone
       ELSE IF mobile_sessions[payload.session_id] = PyNone THEN PyNone
       ELSE IF field = "xero_token"
            THEN (IF PyTruthy(mobile_sessions[payload.session_id].xero_token)
                  THEN mobile_sessions[payload.session_id].xero_token ELSE PyNone)
            ELSE (IF PyTruthy(mobile_sessions[payload.session_id].openai_api_key)
                  THEN mobile_sessions[payload.session_id].openai_api_key ELSE PyNone)

(* The credential a valid signed value of the cookie session holds *)
CookieCredential(field) ==
    IF cookie[field] = PyNone \/ loads_raises(cookie[field], now) # "no" THEN PyNone
    ELSE cookie[field].payload

(* C22: a request that carries a bearer token is resolved from the mobile  *)
(* session bound to the token, or to nothing when the token is invalid or  *)
(* expired or its mobile session is missing, and the cookie session is not *)
(* consulted; only a request without a bearer credential is resolved from  *)
(* the cookie session.  For the Xero credential and the OpenAI key alike.  *)
C22_BearerNeverFallsBackToCookie ==
    [][ret'.py = "resolved" =>
          \A request \in ServiceRequests :
             /\ resolve_xero_token(request) =>
                   IF CarriesBearer(request)
                   THEN /\ ret'.value = MobileCredential(request, "xero_token")
                        /\ cookie' = cookie
                   ELSE ret'.value = CookieCredential("xero_token")
             /\ resolve_openai_api_key(request) =>
                   IF CarriesBearer(request)
                   THEN /\ ret'.value = MobileCredential(request, "openai_api_key")
                        /\ cookie' = cookie
                   ELSE ret'.value = CookieCredential("openai_api_key")]_vars

(* C22 witness: a request with a bearer token that does not verify was     *)
(* resolved to nothing while the cookie session holds a valid Xero         *)
(* credential                                                              *)
C22_Witness ==
    /\ kind = "service"
    /\ ret.py = "resolved"
    /\ ret.want = "xero_token"
    /\ CarriesBearer(ret.request)
    /\ validate_token(ret.request.authorization.credentials, now) = PyNone
    /\ ret.value = PyNone
    /\ CookieCredential("xero_token") # PyNone

---------------------------------------------------------------------------
(* Requests in flight.  process_contact_step looks its session up, is      *)
(* suspended while the transcription and extraction collaborators work,    *)
(* and stores the result in the session object it holds when it resumes.   *)
(* Other requests are handled during the suspension.  The store here has   *)
(* two session ids.                                                        *)

MaxConcurSteps == 6
MaxConcurTime == 31
MaxInFlight == 2

ConcurIds == {"s1", "s2"}

(* Minutes that can pass between two steps, a suspension included *)
ConcurTickMinutes == {1, SESSION_TTL}

ConcurStep ==
    /\ kind = "concur"
    /\ nreq < MaxConcurSteps
    /\ nreq' = nreq + 1
    /\ UNCHANGED <<kind, now, cookie, mobile_sessions, issued, calls, cache>>

(* A request in flight holds a reference to its session object: held is   *)
(* NoSession while that object is the one in the store, and the object     *)
(* itself once the store has dropped it; by names the function that        *)
(* dropped it.                                                             *)
InFlight(rid, session_id, step, utt) ==
    [rid |-> rid, session_id |-> session_id, step |-> step, utt |-> utt,
     held |-> NoSession, by |-> None]

(* del _sessions[session_id]: the requests that hold the object keep it *)
Dropped(flight, store, removed, by) ==
    {IF r.held = NoSession /\ r.session_id \in removed
     THEN [r EXCEPT !.held = store[r.session_id], !.by = by] ELSE r : r \in flight}

(* The ids whose object get_contact_session or cleanup_expired_sessions    *)
(* takes out of the store                                                  *)
Removed(store, after) == {sid \in DOMAIN store : Live(store, sid) /\ store[sid] # after[sid]}

(* GET /contact/new?session_id=...: new_contact_workflow, authenticated *)
reaping_new_contact_workflow(sid) ==
    /\ ConcurStep
    /\ LET cleaned == cleanup_expired_sessions(sessions, now)
           s0 == get_contact_session(cleaned, sid, now)
       IN /\ sessions' = [cleaned EXCEPT ![sid] = s0]
          /\ inflight' = Dropped(inflight, sessions, Removed(sessions, cleaned),
                                 "cleanup_expired_sessions")
          /\ ret' = [py |-> "reaped", sid |-> sid,
                     count |-> cleanup_expired_sessions_count(sessions, now)]
    /\ Respond("ok")

(* POST /contact/step up to the await of process_voice_step *)
begin_contact_step(session_id, step, utt) ==
    /\ ConcurStep
    /\ Cardinality(inflight) < MaxInFlight
    /\ LET s0 == get_contact_session(sessions, session_id, now)
           stored == [sessions EXCEPT ![session_id] = s0]
       IN /\ sessions' = stored
          /\ inflight' = Dropped(inflight, sessions, Removed(sessions, stored),
                                 "get_contact_session")
                            \cup {InFlight(nreq, session_id, step, utt)}
    /\ UNCHANGED <<resp, resp_field, ret>>

(* POST /contact/step from the return of process_voice_step:               *)
(* session.store_step_result on the object the request holds               *)
finish_contact_step(rid, outcome) ==
    /\ ConcurStep
    /\ \E r \in inflight :
          /\ r.rid = rid
          /\ inflight' = inflight \ {r}
          /\ LET object == IF r.held = NoSession THEN sessions[r.session_id] ELSE r.held
                 updated == contact_store_step_result(object, r.step, r.utt.parsed,
                                                      r.utt.transcript, now)
             IN IF outcome # "ok"
                THEN /\ UNCHANGED sessions
                     /\ ret' = [py |-> "failed", request |-> r]
                     /\ Respond(VoiceErrorCode(outcome))
                ELSE /\ sessions' = IF r.held = NoSession
                                    THEN [sessions EXCEPT ![r.session_id] = updated]
                                    ELSE sessions
                     /\ ret' = [py |-> "stored", request |-> r, object |-> updated,
                                at |-> nreq]
                     /\ Respond("ok")

ConcurTick ==
    /\ kind = "concur"
    /\ nreq < MaxConcurSteps
    /\ \E d \in ConcurTickMinutes :
          /\ now + d <= MaxConcurTime
          /\ now' = now + d
    /\ nreq' = nreq + 1
    /\ UNCHANGED <<kind, sessions, resp, resp_field, service_vars, inflight, cache>>

ConcurVoiceStep == "name"

RequestIds == 0 .. MaxConcurSteps - 1

ConcurInit ==
    /\ kind = "concur"
    /\ sessions \in {[sid \in ConcurIds |-> NoSession],
                     [sid \in ConcurIds |-> IF sid = "s1" THEN ContactWorkflowSession(0)
                                            ELSE NoSession]}
    /\ now = 0
    /\ nreq = 0
    /\ resp = "none"
    /\ resp_field = None
    /\ NoServiceState
    /\ inflight = {}
    /\ cache = ModuleCaches

ConcurNext ==
    \/ \E sid \in ConcurIds : reaping_new_contact_workflow(sid)
    \/ \E sid \in ConcurIds, utt \in ContactUtterances(ConcurVoiceStep) :
          begin_contact_step(sid, ConcurVoiceStep, utt)
    \/ \E rid \in RequestIds, outcome \in {"ok", "upstream_fail"} :
          finish_contact_step(rid, outcome)
    \/ ConcurTick

ConcurSpec == ConcurInit /\ [][ConcurNext]_vars

---------------------------------------------------------------------------
(* C23: cleanup_expired_sessions removes exactly the sessions whose age    *)
(* (now - updated_at) exceeds 30 minutes, leaves every other session in    *)
(* the store as it was, and returns the number of sessions it removed.     *)
(* The session of the request itself is looked up after the reap, so an    *)
(* expired one is created anew.                                            *)

OlderThanLimit(store, sid, t) == Live(store, sid) /\ t - store[sid].updated_at > SESSION_TTL

C23_ReapRemovesExactlyExpired ==
    [][\A sid \in ConcurIds :
          reaping_new_contact_workflow(sid) =>
             /\ \A o \in ConcurIds :
                   IF OlderThanLimit(sessions, o, now)
                   THEN IF o = sid THEN sessions'[o] = ContactWorkflowSession(now)
                        ELSE ~Live(sessions', o)
                   ELSE o # sid \/ Live(sessions, o) => sessions'[o] = sessions[o]
             /\ ret'.count = Cardinality({o \in ConcurIds : OlderThanLimit(sessions, o, now)})]_vars

(* One session was removed and the other, aged exactly 30 minutes, kept *)
C23_Witness ==
    /\ kind = "concur"
    /\ ret.py = "reaped"
    /\ ret.count = 1
    /\ \E o \in ConcurIds \ {ret.sid} :
          /\ Live(sessions, o)
          /\ now - sessions[o].updated_at = SESSION_TTL
    /\ sessions[ret.sid] = ContactWorkflowSession(now)
    /\ now > SESSION_TTL

---------------------------------------------------------------------------
(* C24: reaping interleaved with other requests on the same store is safe: *)
(* it removes only entries older than 30 minutes, and no request that      *)
(* looked up its session before the reap ran stores its result in an       *)
(* object the reap has taken out of the store.                             *)

C24_ReapSafeForRequestsInFlight ==
    /\ \A r \in inflight :
          r.by = "cleanup_expired_sessions" => r.held.updated_at + SESSION_TTL < now
    /\ ret.py = "stored" => ret.request.by # "cleanup_expired_sessions"

---------------------------------------------------------------------------
(* C25: when two voice submissions for the same session id and step are    *)
(* processed concurrently, the last writer wins: once the later of the two *)
(* has stored its result, the session's draft fields and transcript for    *)
(* the step are those of that submission, and completed_steps holds the    *)
(* step exactly once.                                                      *)

SameTarget(a, b) == a.session_id = b.session_id /\ a.step = b.step

(* r is in flight and another submission for the same session id and step  *)
(* finished, as the latest store, after r looked its session up            *)
LastOfTwo(r) ==
    /\ ret.py = "stored"
    /\ SameTarget(ret.request, r)
    /\ ret.at > r.rid
    /\ \A o \in inflight \ {r} : ~SameTarget(o, r)

Occurrences(seq, x) == Cardinality({i \in DOMAIN seq : seq[i] = x})

HoldsResultOf(s, r) ==
    /\ s # NoSession
    /\ dict_get(s.transcripts, r.step) = r.utt.transcript
    /\ dict_get(s.parsed_results, r.step) = r.utt.parsed
    /\ s.contact_data.name = r.utt.parsed.name
    /\ Occurrences(s.completed_steps, r.step) = 1

C25_LastWriterWins ==
    [][\A rid \in RequestIds :
          finish_contact_step(rid, "ok") =>
             \A r \in inflight :
                r.rid = rid /\ LastOfTwo(r) => HoldsResultOf(sessions'[r.session_id], r)]_vars

---------------------------------------------------------------------------
(* C26: a voice step submission whose audio payload exceeds 10 MiB is      *)
(* rejected, and the transcription collaborator is never invoked for it.   *)

Oversized(audio) == audio.content > MAX_AUDIO_SIZE

C26_OversizedAudioRejected ==
    ret.py = "transcribed" /\ Oversized(ret.audio) =>
        /\ ret.value.py = "raised"
        /\ calls = <<>>

---------------------------------------------------------------------------
(* C27: exchange_code_for_token contacts the token endpoint only if stored *)
(* OAuth session data exists and the state returned in the callback equals *)
(* the stored state; with missing session data or a mismatching state it   *)
(* fails with an error and issues no token request.                        *)

(* The OAuth session data the callback finds: stored, signed by this       *)
(* program and not older than max_age                                      *)
StoredOAuthSession ==
    IF /\ cookie["oauth_session"] # PyNone
       /\ cookie["oauth_session"].signature =
             Signature(SECRET_KEY, cookie["oauth_session"].payload,
                       cookie["oauth_session"].timestamp)
       /\ (now - cookie["oauth_session"].timestamp) * 60 <= max_age
    THEN cookie["oauth_session"].payload.oauth_session
    ELSE PyNone

C27_TokenRequestOnlyWithMatchingState ==
    [][ret'.py = "redirect" =>
          \A code \in {"code"}, state \in OAuthStates, answer \in TokenAnswers,
             token \in IssuedXeroTokens :
             auth_callback(code, state, None, answer, token) =>
                IF StoredOAuthSession # PyNone /\ StoredOAuthSession.state = state
                THEN /\ Len(calls') = 1
                     /\ calls'[1].code_verifier = StoredOAuthSession.code_verifier
                ELSE /\ calls' = <<>>
                     /\ ret' = Redirect("/?error=callback_error")
                     /\ cookie'["xero_token"] = cookie["xero_token"]]_vars

(* A callback whose state differs from the stored one was refused *)
C27_Witness ==
    /\ kind = "service"
    /\ ret = Redirect("/?error=callback_error")
    /\ calls = <<>>
    /\ StoredOAuthSession # PyNone

---------------------------------------------------------------------------
(* C28: get_session_data returns None and removes the key from the cookie  *)
(* session whenever the stored value fails signature verification or its   *)
(* signature has expired; a tampered or expired value is never returned.   *)

Verifies(signed, t) ==
    /\ signed.signature = Signature(SECRET_KEY, signed.payload, signed.timestamp)
    /\ (t - signed.timestamp) * 60 <= max_age

(* A lookup of key in the cookie session returned value *)
LooksUpStored(key, value, after) ==
    cookie[key] # PyNone =>
       IF Verifies(cookie[key], now)
       THEN /\ value = cookie[key].payload
            /\ after = cookie
       ELSE /\ value = PyNone
            /\ after = [cookie EXCEPT ![key] = PyNone]

C28_FailingValueRemoved ==
    [][ret'.py = "resolved" =>
          \A request \in ServiceRequests :
             ~CarriesBearer(request) =>
                /\ resolve_xero_token(request) =>
                      LooksUpStored("xero_token", ret'.value, cookie')
                /\ resolve_openai_api_key(request) =>
                      LooksUpStored("openai_api_key", ret'.value, cookie')]_vars

(* The stored API key failed verification: the lookup returned None and    *)
(* the key is gone, while the validation record stored with it remains     *)
C28_Witness ==
    /\ kind = "service"
    /\ ret.py = "resolved"
    /\ ret.want = "openai_api_key"
    /\ ~CarriesBearer(ret.request)
    /\ ret.value = PyNone
    /\ cookie["openai_api_key"] = PyNone
    /\ cookie["openai_session"] # PyNone

---------------------------------------------------------------------------
(* C30: in submit-to-xero, when the tenant lookup fails and the stored     *)
(* credential has a refresh token: if the refresh returns a new            *)
(* credential, it is saved and the submission continues with the new       *)
(* access token (tenant lookup retried, record created when it succeeds);  *)
(* if the refresh returns nothing, the request ends with an                *)
(* authentication-expired error and no record is created.                  *)

Called(call) == \E i \in DOMAIN calls' : calls'[i] = call

RefreshAttempted ==
    /\ Len(calls') >= 2
    /\ calls'[2].to = "token_endpoint"
    /\ calls'[2].grant_type = "refresh_token"

C30_RefreshThenContinue ==
    [][RefreshAttempted =>
          \A r \in WithBadSessionId(ServiceRequests), accepted \in SUBSET AccessTokens,
             refreshed \in RefreshAnswers, created \in BOOLEAN :
             submit_to_xero(r[1], r[2], accepted, refreshed, created) =>
                IF refreshed # PyNone
                THEN /\ cookie'["xero_token"] # PyNone
                     /\ cookie'["xero_token"].payload = refreshed
                     /\ Called(TenantLookup(refreshed.access_token))
                     /\ refreshed.access_token \in accepted =>
                           /\ Called(CreateRecord(refreshed.access_token))
                           /\ created => resp' = "ok"
                ELSE /\ resp' = "AUTH_EXPIRED"
                     /\ \A i \in DOMAIN calls' : calls'[i].to # "create_record"]_vars

---------------------------------------------------------------------------
(* C29: the reported progress percentage equals 100 x (number of completed *)
(* steps) / (number of catalog steps) and lies between 0 and 100 inclusive *)
(* in every reachable session state.                                       *)

(* workflow_base/base_session.py: get_progress_percentage, the quotient    *)
(* kept as the fraction num / den                                          *)
get_progress_percentage(steps, s) ==
    IF Len(steps) > 0
    THEN [num |-> Len(s.completed_steps) * 100, den |-> Len(steps)]
    ELSE [num |-> 0, den |-> 1]

C29_ProgressBetween0And100 ==
    \A sid \in SessIds :
       kind \in {"contact", "invoice", "base"} /\ Live(sessions, sid) =>
          LET progress == get_progress_percentage(get_workflow_steps, sessions[sid])
          IN /\ progress.num * Len(get_workflow_steps)
                   = 100 * Len(sessions[sid].completed_steps) * progress.den
             /\ 0 <= progress.num
             /\ progress.num <= 100 * progress.den

---------------------------------------------------------------------------
(* C31: after the clear-openai operation completes, no OpenAI API key is   *)
(* retrievable from that cookie session: key resolution for the session's  *)
(* next requests yields nothing until a key is validated again.            *)

C31_NoKeyAfterClear ==
    [][clear_openai_session =>
          \A request \in ServiceRequests :
             ~CarriesBearer(request) =>
                get_openai_api_key(request, mobile_sessions', cookie', now').value = PyNone]_vars

---------------------------------------------------------------------------
(* C32: a session's current_step is 'complete' only if a submit-to-xero    *)
(* request for that session succeeded in creating the record: the step     *)
(* becomes 'complete' by no other request.                                 *)

IsComplete(store, sid) == Live(store, sid) /\ store[sid].current_step = "complete"

C32_CompleteOnlyByCreation ==
    [][\A sid \in SessIds :
          /\ kind \in {"contact", "invoice"}
          /\ IsComplete(sessions', sid)
          /\ ~IsComplete(sessions, sid)
          => \/ contact_submit_to_xero(sid, "ok")
             \/ invoice_submit_to_xero(sid, "ok")]_vars

---------------------------------------------------------------------------
(* C33: for each session (between resets) at most one record is created in *)
(* the accounting service: once a submit-to-xero request has succeeded, a   *)
(* repeated submit-to-xero request for the same session creates no second  *)
(* record.                                                                 *)

RecordCreated(response, made) ==
    /\ response = "ok"
    /\ \E i \in DOMAIN made : made[i].to = "create_record"

C33_AtMostOneRecord ==
    [][RecordCreated(resp, calls) =>
          \A r \in WithBadSessionId(ServiceRequests), accepted \in SUBSET AccessTokens,
             refreshed \in RefreshAnswers, created \in BOOLEAN :
             submit_to_xero(r[1], r[2], accepted, refreshed, created) =>
                ~RecordCreated(resp', calls')]_vars

---------------------------------------------------------------------------
(* C34: a proceed decision succeeds (marks 'line_item' complete and sets   *)
(* current_step to 'review') only if at least one line item is committed   *)
(* once the pending item has been saved; otherwise it is rejected and      *)
(* current_step and completed_steps are unchanged.                         *)

NothingToReview(s) ==
    /\ ~save_pending_raises(s)
    /\ Len(save_pending(s).invoice_data["line_items"]) = 0

C34_ProceedNeedsLineItem ==
    [][\A sid \in SessIds :
          /\ kind = "invoice"
          /\ ProceedToReviewDecision(sid)
          /\ NothingToReview(get_invoice_session(sessions, sid, now))
          => /\ resp' # "ok"
             /\ sessions'[sid].current_step
                   = get_invoice_session(sessions, sid, now).current_step
             /\ sessions'[sid].completed_steps
                   = get_invoice_session(sessions, sid, now).completed_steps]_vars

---------------------------------------------------------------------------
(* C35: in every reachable Invoice session state the pending flag          *)
(* has_pending_item is true if and only if current_line_item is non-null.  *)

C35_PendingFlagMatchesItem ==
    \A sid \in SessIds :
       kind = "invoice" /\ Live(sessions, sid) =>
          (sessions[sid].has_pending_item
              <=> sessions[sid].invoice_data["current_line_item"] # NoneItem)


(* C36: after reset a session equals a newly created session in everything *)
(* except its timestamps: initial step, no completed steps, empty draft,   *)
(* no committed or pending line item, pending flag off, no transcripts and *)
(* no errors.                                                              *)
NewSession(k, t) ==
    IF k = "contact" THEN ContactWorkflowSession(t) ELSE InvoiceWorkflowSession(t)

C36_ResetEqualsNewSession ==
    [][\A sid \in SessIds :
          contact_reset_workflow(sid) \/ invoice_reset_workflow(sid)
          => sessions'[sid] = NewSession(kind, sessions'[sid].updated_at)]_vars

(* C37: a pending line item is committed to the line-item list at most     *)
(* once: an add-another or proceed decision either leaves the list as it   *)
(* was, or appends the item that was pending and leaves no item pending,   *)
(* so that a repeated decision appends nothing.                            *)
LineItemDecision(sid) == AddAnotherDecision(sid) \/ ProceedToReviewDecision(sid)

C37_PendingItemCommittedOnce ==
    [][\A sid \in SessIds :
          kind = "invoice" /\ LineItemDecision(sid) /\ Live(sessions', sid) =>
             LET s == get_invoice_session(sessions, sid, now)
                 before == s.invoice_data["line_items"]
                 after == sessions'[sid].invoice_data["line_items"]
             IN \/ after = before
                \/ /\ s.invoice_data["current_line_item"] # NoneItem
                   /\ after = Append(before, s.invoice_data["current_line_item"])
                   /\ sessions'[sid].invoice_data["current_line_item"] = NoneItem]_vars

C37_Witness ==
    \E sid \in SessIds :
       /\ kind = "invoice"
       /\ Live(sessions, sid)
       /\ Len(sessions[sid].invoice_data["line_items"]) = 1
       /\ IsDictItem(sessions[sid].invoice_data["line_items"][1])
       /\ sessions[sid].invoice_data["current_line_item"] = NoneItem
       /\ sessions[sid].current_step = "review"
       /\ nreq >= 3

(* C38: for a request carrying a bearer token, when the authentication     *)
(* check of the workflow routes reports the client as authenticated, the   *)
(* credential resolution for that request yields a Xero credential and an  *)
(* OpenAI key, neither of them null.                                       *)
C38_AuthenticatedImpliesCredentials ==
    \A request \in ServiceRequests :
       CarriesBearer(request) /\ check_auth_status(request, cookie, now).result[1] =>
          /\ get_xero_token(request, mobile_sessions, cookie, now).value # PyNone
          /\ get_openai_api_key(request, mobile_sessions, cookie, now).value # PyNone

(* C39: a successful OAuth callback clears the stored OAuth session data   *)
(* (state and code verifier), so a callback that replays the code and the  *)
(* state right after it is rejected and sends no token request.            *)
CallbackSucceeded ==
    ret \in {Redirect("/?success=xero_connected"), Redirect("oauth/callback?success=true&token=")}

C39_ReplayedCallbackRejected ==
    [][CallbackSucceeded =>
          /\ cookie["oauth_session"] = PyNone
          /\ \A state \in OAuthStates, answer \in TokenAnswers, token \in IssuedXeroTokens :
                auth_callback("code", state, None, answer, token) =>
                   /\ calls' = <<>>
                   /\ ret' = Redirect("/?error=callback_error")
                   /\ cookie'["xero_token"] = cookie["xero_token"]
                   /\ UNCHANGED <<mobile_sessions, issued>>]_vars

C39_Witness ==
    /\ kind = "service"
    /\ nreq = 3
    /\ ret = Redirect("/?error=callback_error")
    /\ calls = <<>>
    /\ cookie["oauth_session"] = PyNone
    /\ cookie["xero_token"] # PyNone
    /\ cookie["xero_token"].payload = XeroToken("at1", None)

---------------------------------------------------------------------------
(* workflow_base/cache.py: the caching decorator.  The clock counts        *)
(* minutes, time.time() is the clock in seconds.                           *)

MaxCacheSteps == 4
MaxCacheTime == 65

(* WorkflowCache.get: the value returned (None on a miss) and the cache    *)
(* left behind; an expired entry is deleted                                *)
cache_get(c, key, t) ==
    IF c.cache[key] # NoEntry /\ (t - c.cache[key][2]) * 60 < c.ttl
    THEN [value |-> c.cache[key][1], cache |-> [c EXCEPT !.hits = @ + 1]]
    ELSE [value |-> PyNone,
          cache |-> [c EXCEPT !.cache[key] = NoEntry, !.misses = @ + 1]]

(* WorkflowCache.set: at max_size an oldest entry goes first *)
cache_held(c) == {k \in CacheKeys : c.cache[k] # NoEntry}

cache_set(c, key, value, t) ==
    LET oldest_key == CHOOSE k \in cache_held(c) :
                         \A o \in cache_held(c) : c.cache[k][2] <= c.cache[o][2]
        room == IF Cardinality(cache_held(c)) >= c.max_size
                THEN [c EXCEPT !.cache[oldest_key] = NoEntry] ELSE c
    IN [room EXCEPT !.cache[key] = <<value, t>>]

(* WorkflowCache.clear *)
cache_clear(c) ==
    [c EXCEPT !.cache = [k \in CacheKeys |-> NoEntry], !.hits = 0, !.misses = 0]

(* cached(ttl, cache_instance): the decorator, and the specialized         *)
(* decorators cache_session, cache_template and cache_api                  *)
cached(ttl, cache_instance) ==
    [ttl |-> ttl, cache |-> IF cache_instance = None THEN "api_cache" ELSE cache_instance]

cache_session == cached(1800, "session_cache")
cache_template == cached(3600, "template_cache")
cache_api == cached(300, "api_cache")

(* The decorators applied: the specialized ones, cached() with its         *)
(* defaults, and cached(cache_instance=session_cache) with the default ttl *)
Decorators == {cache_session, cache_template, cache_api, cached(300, None),
               cached(300, "session_cache")}

(* The wrapped function reads a source that changes with time: its result  *)
(* tells when it was computed.  It may also return None.                   *)
FuncResult(func, arg, t) == [py |-> "result", func |-> func, arg |-> arg, at |-> t]

CacheStep ==
    /\ kind = "cache"
    /\ nreq < MaxCacheSteps
    /\ nreq' = nreq + 1
    /\ UNCHANGED <<kind, now, sessions, resp, resp_field, cookie, mobile_sessions, issued,
                   inflight>>

(* wrapper: a call of the decorated function; returns_none: the          *)
(* wrapped function returns None when it is called                         *)
wrapper(d, func, arg, returns_none) ==
    /\ CacheStep
    /\ LET key == <<func, arg>>
           got == cache_get(cache[d.cache], key, now)
           result == IF returns_none THEN PyNone ELSE FuncResult(func, arg, now)
       IN IF got.value # PyNone
          THEN /\ ret' = got.value
               /\ calls' = <<>>
               /\ cache' = [cache EXCEPT ![d.cache] = got.cache]
          ELSE /\ ret' = result
               /\ calls' = <<[to |-> func, arg |-> arg]>>
               /\ cache' = [cache EXCEPT ![d.cache] = cache_set(got.cache, key, result, now)]

(* wrapper.cache_clear() *)
wrapper_cache_clear(d) ==
    /\ CacheStep
    /\ cache' = [cache EXCEPT ![d.cache] = cache_clear(@)]
    /\ calls' = <<>>
    /\ ret' = PyNone

CacheTickMinutes == {5, 30, 60}

CacheTick ==
    /\ kind = "cache"
    /\ nreq < MaxCacheSteps
    /\ \E m \in CacheTickMinutes :
          /\ now + m <= MaxCacheTime
          /\ now' = now + m
    /\ nreq' = nreq + 1
    /\ UNCHANGED <<kind, sessions, resp, resp_field, service_vars, inflight, cache>>

CacheInit ==
    /\ kind = "cache"
    /\ sessions = [sid \in SessIds |-> NoSession]
    /\ now = 0
    /\ nreq = 0
    /\ resp = "none"
    /\ resp_field = None
    /\ NoServiceState
    /\ inflight = {}
    /\ cache = ModuleCaches

CacheNext ==
    \/ \E d \in Decorators, func \in CacheFuncs, arg \in CacheArgs, returns_none \in BOOLEAN :
          wrapper(d, func, arg, returns_none)
    \/ \E d \in Decorators : wrapper_cache_clear(d)
    \/ CacheTick

CacheSpec == CacheInit /\ [][CacheNext]_vars

(* C40: a function wrapped with cached(ttl=T, cache_instance=C) never      *)
(* returns a result that was stored more than T seconds earlier, and once  *)
(* T seconds have passed since the result was stored the wrapped function  *)
(* is called again.                                                        *)
C40_CachedResultWithinTtl ==
    [][\A d \in Decorators, func \in CacheFuncs, arg \in CacheArgs, returns_none \in BOOLEAN :
          wrapper(d, func, arg, returns_none) =>
             LET entry == cache[d.cache].cache[<<func, arg>>]
             IN /\ ret' # PyNone => (now - ret'.at) * 60 <= d.ttl
                /\ entry # NoEntry /\ (now - entry[2]) * 60 >= d.ttl =>
                      calls' = <<[to |-> func, arg |-> arg]>>]_vars

====
